---- MODULE Spec2Model ----
(***************************************************************************)
(* MyVMK high scores tracker: the ingestion run of scripts/scraper.js      *)
(* (fetch, parse, daily snapshot, all-time merge) and the time-window      *)
(* queries of js/app.js over the stored snapshots.                         *)
(*                                                                         *)
(* Calendar dates ("YYYY-MM-DD" strings in the code) are day numbers: the  *)
(* fixed-width format orders and compares exactly as the day numbers do.   *)
(* JavaScript null / undefined is the value Null.                          *)
(***************************************************************************)
EXTENDS Integers, Sequences, FiniteSets, TLC

VARIABLES
  today,          \* the wall clock, as the current Pacific calendar day
  allTimeFile,    \* data/all-time.json
  dailyDir,       \* data/daily/: a set of files [name, content]
  pc,             \* position of the ingestion process inside main()
  response,       \* main(): what fetch(HIGHSCORES_URL) gave the last process
  games,          \* main(): const games = parseAllGames(html)
  pacificDate,    \* main(): const pacificDate = getPacificDate()
  exitCode,       \* exit status of the last ingestion process
  runs,           \* number of ingestion processes started so far
  dailyDataCache, \* app.js: the Map of the snapshots loaded in this session
  queryPeriod,    \* app.js: the period of the last getScoresForPeriod call
  queryDay,       \* app.js: getPacificDate() during that call
  queryResult,    \* app.js: what the last getScoresForPeriod call returned
  beforeFile,     \* history: all-time.json as the last updateAllTimeScores call found it
  remerged,       \* history: the last updateAllTimeScores call repeated the one before it
  startFiles,     \* history: [allTime, daily] as they were when the last process started
  lastRunOn,      \* history: per date, the games of the last process that parsed a page on it
  allTimeData,    \* app.js: let allTimeData, set by loadAllTimeData()
  users,          \* seed-users.js: const users = {} of seedUsersIndex()
  seedPos,        \* seed-users.js: number of score entries seedUsersIndex() has processed
  usersFile,      \* data/users.json
  seedPc,         \* position of the seed-users.js process: "idle", "run" or "written"
  prevUsersFile,  \* history: data/users.json as the seed-users.js process before left it
  currentPeriod,  \* app.js: let currentPeriod
  inflight,       \* app.js: the renderAllLeaderboards calls waiting for their snapshots
  shown,          \* app.js: the period and the leaderboards rendered in gamesGrid
  procs,          \* overlapping ingestion processes: each one's position and locals
  loads,          \* app.js: the loadDailyData calls, each one's position and date
  returned        \* history: per date, the snapshot the first load that found one returned

scraperVars == <<allTimeFile, dailyDir, pc, response, games, pacificDate, exitCode, runs,
                 beforeFile, remerged, startFiles, lastRunOn>>
appVars == <<dailyDataCache, queryPeriod, queryDay, queryResult>>
indexVars == <<users, seedPos, usersFile, seedPc, prevUsersFile>>
renderVars == <<currentPeriod, inflight, shown>>
loadVars == <<loads, returned>>
vars == <<today, scraperVars, appVars, allTimeData, indexVars, renderVars, procs, loadVars>>

Null == "null"

(***************************************************************************)
(* Bounds of the model.                                                    *)
(***************************************************************************)
MaxItems == 3     \* list items (<li>) scraped in one behaviour of the merge engine
MaxDay == 2       \* calendar days the clock runs through
MaxRuns == 3      \* ingestion processes started in one behaviour

Days == 1..MaxDay
Usernames == {"Ariel", "Bob"}
Scores == {100, 250}

Min(a, b) == IF a < b THEN a ELSE b

(***************************************************************************)
(* scraper.js: configuration                                               *)
(***************************************************************************)
GAMES == << [id |-> "castle-fireworks", name |-> "Castle Fireworks Remixed"],
            [id |-> "pirates",          name |-> "Pirates of the Caribbean"],
            [id |-> "haunted-mansion",  name |-> "Haunted Mansion"],
            [id |-> "jungle-cruise",    name |-> "Jungle Cruise"] >>

TopAllTime == 50

(***************************************************************************)
(* The scraped page.  A page is the sequence of its .highscores sections;  *)
(* a section has the three columns today / yesterday / highscores; a       *)
(* column has the src of its avatar image (or Null) and its <li> items.    *)
(* An item is the text "Username - Score" (ok) or any other text.          *)
(***************************************************************************)
BadItem == [ok |-> FALSE, username |-> "", score |-> 0]
Items == {[ok |-> TRUE, username |-> u, score |-> s] : u \in Usernames, s \in Scores}
           \cup {BadItem}

EmptyColumn == [avatarUrl |-> Null, items |-> <<>>]

\* parseScores: one entry per matching <li>, rank = index of the <li> + 1
RECURSIVE ParseScoresFrom(_, _)
ParseScoresFrom(items, index) ==
  IF items = <<>> THEN <<>>
  ELSE LET li == Head(items)
           rest == ParseScoresFrom(Tail(items), index + 1)
       IN IF li.ok
          THEN <<[rank |-> index + 1, username |-> li.username, score |-> li.score]>> \o rest
          ELSE rest

ParseScores(items) == ParseScoresFrom(items, 0)

\* extractAvatarFilename: the trailing <hex digits>.png of the url, or null
ExtractAvatarFilename(url) ==
  CASE url = Null -> Null
    [] url = "https://cdn/avatars/0a1b.png" -> "0a1b.png"
    [] url = "https://cdn/avatars/9f.png" -> "9f.png"
    [] OTHER -> Null

ParseColumn(col) ==
  [topAvatar |-> ExtractAvatarFilename(col.avatarUrl),
   topAvatarUrl |-> col.avatarUrl,
   scores |-> ParseScores(col.items)]

\* parseGameSection
ParseGameSection(section, gameConfig) ==
  [name |-> gameConfig.name,
   today |-> ParseColumn(section.today),
   yesterday |-> ParseColumn(section.yesterday),
   highscores |-> ParseColumn(section.highscores)]

\* parseAllGames: section number index belongs to GAMES[index]; further ones are skipped
ParseAllGames(page) ==
  LET n == Min(Len(page), Len(GAMES))
  IN [id \in {GAMES[i].id : i \in 1..n} |->
        LET i == CHOOSE j \in 1..n : GAMES[j].id = id
        IN ParseGameSection(page[i], GAMES[i])]

NoGames == [id \in {} |-> Null]

\* seed-users.js: const users = {}
NoUsers == [u \in {} |-> Null]

\* data/users.json before seedUsersIndex wrote it
NoUsersFile == [exists |-> FALSE, lastUpdated |-> 0, userCount |-> 0, users |-> NoUsers]

\* gamesGrid before anything was rendered; no ingestion process running beside main()
NotShown == [period |-> "none", result |-> [hasData |-> FALSE, boards |-> [id \in {} |-> Null]]]
NoProcs == [p \in {} |-> Null]
NoLoads == [c \in {} |-> Null]

(***************************************************************************)
(* data/all-time.json                                                      *)
(***************************************************************************)
AbsentFile ==
  [exists |-> FALSE, parses |-> FALSE, hasGames |-> FALSE, lastUpdated |-> 0,
   games |-> NoGames]
UnparseableFile == [AbsentFile EXCEPT !.exists = TRUE]
\* a JSON object without a games mapping
NoGamesFile(date) == [UnparseableFile EXCEPT !.parses = TRUE, !.lastUpdated = date]

(***************************************************************************)
(* updateAllTimeScores                                                     *)
(***************************************************************************)
\* mutant: the entry is dated the day before the ingestion date
StampDayBefore(s, date) ==
  [rank |-> s.rank, username |-> s.username, score |-> s.score, achievedOn |-> date - 1]

\* { ...s, achievedOn: date }
Stamp(s, date) ==
  [rank |-> s.rank, username |-> s.username, score |-> s.score, achievedOn |-> date]

\* A JavaScript Map keyed by username, as the sequence of its values in
\* insertion order.
MapHas(m, username) == \E i \in 1..Len(m) : m[i].username = username
MapGet(m, username) == m[CHOOSE i \in 1..Len(m) : m[i].username = username]
MapSet(m, s) ==
  IF MapHas(m, s.username)
  THEN [i \in 1..Len(m) |-> IF m[i].username = s.username THEN s ELSE m[i]]
  ELSE Append(m, s)

\* new Map(existing.scores.map(s => [s.username, s]))
RECURSIVE MapOf(_)
MapOf(scores) ==
  IF scores = <<>> THEN <<>>
  ELSE MapSet(MapOf(SubSeq(scores, 1, Len(scores) - 1)), scores[Len(scores)])

\* mutant: a candidate that only equals the stored score replaces the entry too
BeatsExistingOnTie(m, newScore) ==
  \/ ~MapHas(m, newScore.username)
  \/ newScore.score >= MapGet(m, newScore.username).score

\* the test of both merge loops
BeatsExisting(m, newScore) ==
  \/ ~MapHas(m, newScore.username)
  \/ newScore.score > MapGet(m, newScore.username).score

\* the body of both merge loops
MergeOne(m, newScore, date) ==
  IF BeatsExisting(m, newScore) THEN MapSet(m, Stamp(newScore, date)) ELSE m

RECURSIVE MergeLoop(_, _, _)
MergeLoop(m, newScores, date) ==
  IF newScores = <<>> THEN m
  ELSE IF BeatsExisting(m, Head(newScores))
       THEN MergeLoop(MergeOne(m, Head(newScores), date), Tail(newScores), date)
       ELSE MergeLoop(m, Tail(newScores), date)

\* Array.prototype.sort((a, b) => b.score - a.score): stable
InsertByScore(sorted, s) ==
  LET k == Cardinality({i \in 1..Len(sorted) : sorted[i].score >= s.score})
  IN SubSeq(sorted, 1, k) \o <<s>> \o SubSeq(sorted, k + 1, Len(sorted))

RECURSIVE SortByScoreDesc(_)
SortByScoreDesc(scores) ==
  IF scores = <<>> THEN <<>>
  ELSE InsertByScore(SortByScoreDesc(SubSeq(scores, 1, Len(scores) - 1)),
                     scores[Len(scores)])

Slice(scores, n) == SubSeq(scores, 1, Min(n, Len(scores)))

ReRank(scores) == [i \in 1..Len(scores) |-> [scores[i] EXCEPT !.rank = i]]

\* the candidates of the two merge loops, in the order they are processed
Candidates(gameData) == gameData.highscores.scores \o gameData.today.scores

\* mutant: the seed takes the today block in as well
SeedGameWithToday(gameData, date) ==
  [name |-> gameData.name,
   topAvatar |-> gameData.highscores.topAvatar,
   scores |-> [i \in 1..Len(Candidates(gameData)) |-> Stamp(Candidates(gameData)[i], date)]]

\* the first branch of the loop: the game has no all-time record yet
SeedGame(gameData, date) ==
  [name |-> gameData.name,
   topAvatar |-> gameData.highscores.topAvatar,
   scores |-> [i \in 1..Len(gameData.highscores.scores) |->
                 Stamp(gameData.highscores.scores[i], date)]]

\* existingScoreMap after both merge loops
MergedMap(existing, gameData, date) ==
  MergeLoop(MergeLoop(MapOf(existing.scores), gameData.highscores.scores, date),
            gameData.today.scores, date)

Or3(a, b, c) == IF a # Null THEN a ELSE IF b # Null THEN b ELSE c

\* mutant: the avatar is replaced whenever the page carries one
TopAvatarAfterAnyDate(existing, sortedScores, gameData, date) ==
  Or3(gameData.today.topAvatar, gameData.highscores.topAvatar, existing.topAvatar)

TopAvatarAfter(existing, sortedScores, gameData, date) ==
  IF Len(sortedScores) > 0 /\ sortedScores[1].achievedOn = date
  THEN Or3(gameData.today.topAvatar, gameData.highscores.topAvatar, existing.topAvatar)
  ELSE existing.topAvatar

\* the rest of the loop: the game has an all-time record
MergeGame(existing, gameData, date) ==
  LET sortedScores ==
        ReRank(Slice(SortByScoreDesc(MergedMap(existing, gameData, date)), TopAllTime))
  IN [name |-> existing.name,
      topAvatar |-> TopAvatarAfter(existing, sortedScores, gameData, date),
      scores |-> sortedScores]

\* the try / catch around readFile and JSON.parse
LoadAllTime(file, date) ==
  IF file.exists /\ file.parses THEN file
  ELSE [exists |-> TRUE, parses |-> TRUE, hasGames |-> TRUE, lastUpdated |-> date,
        games |-> NoGames]

\* allTime.games[gameId] with allTime.games undefined is a TypeError, which no
\* handler inside updateAllTimeScores catches
UpdateThrows(file, gms, date) ==
  ~LoadAllTime(file, date).hasGames /\ DOMAIN gms # {}

\* the content written to all-time.json (when nothing is thrown)
UpdateAllTimeScores(file, gms, date) ==
  LET allTime == LoadAllTime(file, date)
  IN [allTime EXCEPT
        !.lastUpdated = date,
        !.games = [id \in DOMAIN allTime.games \cup DOMAIN gms |->
                     IF id \notin DOMAIN gms THEN allTime.games[id]
                     ELSE IF id \notin DOMAIN allTime.games THEN SeedGame(gms[id], date)
                     ELSE MergeGame(allTime.games[id], gms[id], date)]]

(***************************************************************************)
(* saveDailySnapshot                                                       *)
(***************************************************************************)
SnapshotBlock(block) == [topAvatar |-> block.topAvatar, scores |-> block.scores]

\* the avatar urls are dropped, the file names kept
SnapshotGames(gms) ==
  [id \in DOMAIN gms |->
     [name |-> gms[id].name,
      today |-> SnapshotBlock(gms[id].today),
      yesterday |-> SnapshotBlock(gms[id].yesterday),
      highscores |-> SnapshotBlock(gms[id].highscores)]]

\* scrapedAt is the instant of the call: the ordinal of the run stands for it
Snapshot(gms, date, at) == [date |-> date, scrapedAt |-> at, games |-> SnapshotGames(gms)]

\* mutant: one file name for every date
SnapshotFilenameUndated(date) == "latest.json"

\* `${date}.json`
SnapshotFilename(date) == ToString(date) \o ".json"

\* fs.writeFile: creates the file or replaces its content
WriteFile(dir, name, content) ==
  {f \in dir : f.name # name} \cup {[name |-> name, content |-> content]}

SaveDailySnapshot(dir, gms, date, at) ==
  WriteFile(dir, SnapshotFilename(date), Snapshot(gms, date, at))

(***************************************************************************)
(* fetchHighscoresPage: the response of the source site                    *)
(***************************************************************************)
\* mutant: the status of the response is not looked at
FetchThrowsOnRejectOnly(resp) == resp.status = "network-error"

\* fetch() rejects on a network error; a response that is not ok is thrown
FetchThrows(resp) == resp.status # "ok"

(***************************************************************************)
(* The pages of the merge inputs: one section, nothing in the yesterday    *)
(* column, at most k list items in the other two.                          *)
(***************************************************************************)
Avatar9f == "https://cdn/avatars/9f.png"
Avatar0a1b == "https://cdn/avatars/0a1b.png"

TodayUrls == {Null, "https://cdn/avatars/0a1b.png"}
HighscoresUrls == {"https://cdn/img/placeholder.gif", "https://cdn/avatars/9f.png"}

ItemSplits(k) ==
  UNION { {<<h, t>> : h \in [1..ab[1] -> Items], t \in [1..ab[2] -> Items]} :
          ab \in {x \in (0..k) \X (0..k) : x[1] + x[2] <= k} }

MergeSection(h, hUrl, t, tUrl) ==
  [today |-> [avatarUrl |-> tUrl, items |-> t],
   yesterday |-> EmptyColumn,
   highscores |-> [avatarUrl |-> hUrl, items |-> h]]

\* all-time.json as an earlier run (on day 1) left it, or as found broken
PersistedFiles(j) ==
  {UpdateAllTimeScores(AbsentFile, ParseAllGames(<<MergeSection(h, u, <<>>, Null)>>), 1) :
     h \in [1..j -> Items], u \in HighscoresUrls}
  \cup (IF j = 0
        THEN {AbsentFile, UnparseableFile, NoGamesFile(1),
              UpdateAllTimeScores(AbsentFile, NoGames, 1)}
        ELSE {})


(***************************************************************************)
(* The source site as the whole system sees it.                            *)
(***************************************************************************)
Column(url, items) == [avatarUrl |-> url, items |-> items]
Li(username, score) == [ok |-> TRUE, username |-> username, score |-> score]

SectionA ==
  [today |-> Column("https://cdn/avatars/0a1b.png", <<Li("Ariel", 100)>>),
   yesterday |-> Column(Null, <<Li("Bob", 100)>>),
   highscores |-> Column("https://cdn/avatars/9f.png", <<Li("Ariel", 250), Li("Bob", 100)>>)]

SectionB ==
  [today |-> Column(Null, <<Li("Bob", 250), BadItem, Li("Ariel", 100)>>),
   yesterday |-> Column("https://cdn/avatars/0a1b.png", <<Li("Ariel", 100)>>),
   highscores |-> Column("https://cdn/img/placeholder.gif", <<Li("Bob", 250)>>)]

Pages == {<<>>, <<SectionA>>, <<SectionB>>, <<SectionB, SectionA>>}

Responses ==
  {[status |-> "ok", body |-> p] : p \in Pages}
  \cup {[status |-> "http-error", body |-> <<>>], [status |-> "network-error", body |-> <<>>]}

NoResponse == [status |-> "none", body |-> <<>>]

(***************************************************************************)
(* app.js: loading the stored snapshots                                    *)
(***************************************************************************)
APP_GAMES == <<"castle-fireworks", "pirates", "haunted-mansion", "jungle-cruise">>

\* getPacificDate, getYesterdayPacific: the clock is the Pacific calendar day
GetPacificDate(now) == now
GetYesterdayPacific(now) == now - 1

NoSnapshot == [date |-> 0, scrapedAt |-> 0, games |-> NoGames]

\* fetchJSON(`data/daily/${date}.json`): the file's content, or null on 404
FetchJSON(dir, name) ==
  LET hits == {f \in dir : f.name = name}
  IN IF hits = {} THEN [found |-> FALSE, data |-> NoSnapshot]
     ELSE [found |-> TRUE, data |-> (CHOOSE f \in hits : TRUE).content]

EmptyCache == [d \in {} |-> NoSnapshot]

\* loadDailyData: [found, data] and the cache after the call
LoadDailyData(cache, dir, date) ==
  IF date \in DOMAIN cache
  THEN [found |-> TRUE, data |-> cache[date], cache |-> cache]
  ELSE LET r == FetchJSON(dir, SnapshotFilename(date))
       IN [found |-> r.found, data |-> r.data,
           cache |-> IF r.found
                     THEN [d \in DOMAIN cache \cup {date} |->
                             IF d = date THEN r.data ELSE cache[d]]
                     ELSE cache]

(***************************************************************************)
(* app.js: getScoresForPeriod                                              *)
(***************************************************************************)
NoData == [hasData |-> FALSE, boards |-> NoGames]

\* result[gameId] = { scores: gameData?.[block]?.scores || [], topAvatar: ... }
BlockBoards(data, block) ==
  [hasData |-> TRUE,
   boards |-> [id \in {APP_GAMES[i] : i \in 1..Len(APP_GAMES)} |->
                 IF id \in DOMAIN data.games
                 THEN [scores |-> data.games[id][block].scores,
                       topAvatar |-> data.games[id][block].topAvatar]
                 ELSE [scores |-> <<>>, topAvatar |-> Null]]]

\* mutant: no fallback to the file of the day before
ScoresTodayNoFallback(cache, dir, now) ==
  LET data == LoadDailyData(cache, dir, GetPacificDate(now))
  IN [result |-> IF data.found THEN BlockBoards(data.data, "today") ELSE NoData,
      cache |-> data.cache]

\* case 'today'
ScoresToday(cache, dir, now) ==
  LET first == LoadDailyData(cache, dir, GetPacificDate(now))
      data == IF first.found THEN first
              ELSE LoadDailyData(first.cache, dir, GetYesterdayPacific(now))
  IN [result |-> IF data.found THEN BlockBoards(data.data, "today") ELSE NoData,
      cache |-> data.cache]

\* mutant: the file of the reference date is preferred to the file of the day before
ScoresYesterdayTodayFirst(cache, dir, now) ==
  LET first == LoadDailyData(cache, dir, GetPacificDate(now))
      data == IF first.found THEN first
              ELSE LoadDailyData(first.cache, dir, GetYesterdayPacific(now))
  IN [result |-> IF data.found THEN BlockBoards(data.data, "yesterday") ELSE NoData,
      cache |-> data.cache]

\* case 'yesterday'
ScoresYesterday(cache, dir, now) ==
  LET first == LoadDailyData(cache, dir, GetYesterdayPacific(now))
      data == IF first.found THEN first
              ELSE LoadDailyData(first.cache, dir, GetPacificDate(now))
  IN [result |-> IF data.found THEN BlockBoards(data.data, "yesterday") ELSE NoData,
      cache |-> data.cache]

(***************************************************************************)
(* app.js: the date ranges.  The model's calendar has months of            *)
(* DaysInMonth days; day 1 is the 1st of a month.                          *)
(***************************************************************************)
DaysInMonth == 2   \* days of a calendar month of the model's calendar
WeekDays == 7
AllTimeDays == 30
TopN == 10

\* getLastNDays(n): the n days before today, the most recent first
GetLastNDays(now, n) == [i \in 1..n |-> now - i]

\* getCurrentMonthDates: the days of today's month that are not after today
GetCurrentMonthDates(now) ==
  LET first == now - ((now - 1) % DaysInMonth)
      month == [day \in 1..DaysInMonth |-> first + day - 1]
  IN SelectSeq(month, LAMBDA dateStr : dateStr <= GetPacificDate(now))

\* loadMultipleDays: the snapshots found, in the order of dates, and the cache after
RECURSIVE LoadMultipleDays(_, _, _)
LoadMultipleDays(cache, dir, dates) ==
  IF dates = <<>> THEN [data |-> <<>>, cache |-> cache]
  ELSE LET r == LoadDailyData(cache, dir, Head(dates))
           rest == LoadMultipleDays(r.cache, dir, Tail(dates))
       IN [data |-> (IF r.found THEN <<r.data>> ELSE <<>>) \o rest.data,
           cache |-> rest.cache]

(***************************************************************************)
(* app.js: findAvatarForUser                                               *)
(***************************************************************************)
AvatarPeriods(prioritizeHighscores) ==
  IF prioritizeHighscores THEN <<"highscores", "yesterday", "today">>
  ELSE <<"yesterday", "today", "highscores">>

\* mutant: a block that carries no avatar is not a match
TopIsWithAvatar(gameData, period, username) ==
  /\ gameData[period].scores # <<>>
  /\ gameData[period].scores[1].username = username
  /\ gameData[period].topAvatar # Null

\* gameData[period]?.scores?.[0]?.username === username
TopIs(gameData, period, username) ==
  /\ gameData[period].scores # <<>>
  /\ gameData[period].scores[1].username = username

\* the periods of one day, in order: [found, avatar]
RECURSIVE FindInDay(_, _, _)
FindInDay(gameData, periods, username) ==
  IF periods = <<>> THEN [found |-> FALSE, avatar |-> Null]
  ELSE IF TopIs(gameData, Head(periods), username)
       THEN [found |-> TRUE, avatar |-> gameData[Head(periods)].topAvatar]
       ELSE FindInDay(gameData, Tail(periods), username)

\* mutant: every day is searched for the first period before any day is
\* searched for the second
RECURSIVE FindInPeriod(_, _, _, _)
FindInPeriod(dailyDataArray, gameId, period, username) ==
  IF dailyDataArray = <<>> THEN [found |-> FALSE, avatar |-> Null]
  ELSE LET dayData == Head(dailyDataArray)
       IN IF gameId \in DOMAIN dayData.games /\ TopIs(dayData.games[gameId], period, username)
          THEN [found |-> TRUE, avatar |-> dayData.games[gameId][period].topAvatar]
          ELSE FindInPeriod(Tail(dailyDataArray), gameId, period, username)

FindAvatarPeriodFirst(dailyDataArray, gameId, username, prioritizeHighscores) ==
  LET periods == AvatarPeriods(prioritizeHighscores)
      hit(i) == FindInPeriod(dailyDataArray, gameId, periods[i], username)
  IN IF hit(1).found THEN hit(1).avatar
     ELSE IF hit(2).found THEN hit(2).avatar
     ELSE hit(3).avatar

RECURSIVE FindAvatarForUser(_, _, _, _)
FindAvatarForUser(dailyDataArray, gameId, username, prioritizeHighscores) ==
  IF dailyDataArray = <<>> THEN Null
  ELSE LET dayData == Head(dailyDataArray)
           hit == IF gameId \in DOMAIN dayData.games
                  THEN FindInDay(dayData.games[gameId],
                                 AvatarPeriods(prioritizeHighscores), username)
                  ELSE [found |-> FALSE, avatar |-> Null]
       IN IF hit.found THEN hit.avatar
          ELSE FindAvatarForUser(Tail(dailyDataArray), gameId, username,
                                 prioritizeHighscores)

(***************************************************************************)
(* app.js: aggregateScores                                                 *)
(***************************************************************************)
\* mutant: an equal score of a later day replaces the entry
IsBetterOrEqual(m, entry) ==
  ~MapHas(m, entry.username) \/ entry.score >= MapGet(m, entry.username).score

\* !existing || entry.score > existing.score
IsBetter(m, entry) ==
  ~MapHas(m, entry.username) \/ entry.score > MapGet(m, entry.username).score

\* the scores of one day: userBestScores after them
RECURSIVE AggregateDay(_, _, _)
AggregateDay(m, scores, date) ==
  IF scores = <<>> THEN m
  ELSE LET entry == Head(scores)
       IN IF IsBetter(m, entry)
          THEN AggregateDay(MapSet(m, [username |-> entry.username, score |-> entry.score,
                                       date |-> date]),
                            Tail(scores), date)
          ELSE AggregateDay(m, Tail(scores), date)

\* gameData[scoreType]?.scores || gameData.yesterday?.scores || []
ScoresOfType(gameData, scoreType) ==
  IF scoreType \in DOMAIN gameData THEN gameData[scoreType].scores
  ELSE gameData.yesterday.scores

\* userBestScores of a game after all the days
RECURSIVE UserBestScores(_, _, _, _)
UserBestScores(m, dailyDataArray, gameId, scoreType) ==
  IF dailyDataArray = <<>> THEN m
  ELSE LET dayData == Head(dailyDataArray)
           next == IF gameId \in DOMAIN dayData.games
                   THEN AggregateDay(m, ScoresOfType(dayData.games[gameId], scoreType),
                                     dayData.date)
                   ELSE m
       IN UserBestScores(next, Tail(dailyDataArray), gameId, scoreType)

\* sort, slice(0, 10), map to { rank: index + 1, username, score }
SortedTop(best) ==
  LET cut == Slice(SortByScoreDesc(best), TopN)
  IN [i \in 1..Len(cut) |->
        [rank |-> i, username |-> cut[i].username, score |-> cut[i].score]]

AppGameIds == {APP_GAMES[i] : i \in 1..Len(APP_GAMES)}

AggregateScores(dailyDataArray, scoreType) ==
  [id \in AppGameIds |->
     LET sorted == SortedTop(UserBestScores(<<>>, dailyDataArray, id, scoreType))
     IN [scores |-> sorted,
         topAvatar |-> IF sorted # <<>>
                       THEN FindAvatarForUser(dailyDataArray, id, sorted[1].username, FALSE)
                       ELSE Null]]

(***************************************************************************)
(* app.js: getScoresForPeriod, the aggregated periods                      *)
(***************************************************************************)
\* case 'week' and case 'month', given the dates
ScoresOfDates(cache, dir, dates) ==
  LET loaded == LoadMultipleDays(cache, dir, dates)
  IN [result |-> IF loaded.data = <<>> THEN NoData
                 ELSE [hasData |-> TRUE, boards |-> AggregateScores(loaded.data, "yesterday")],
      cache |-> loaded.cache]

ScoresWeek(cache, dir, now) == ScoresOfDates(cache, dir, GetLastNDays(now, WeekDays))

ScoresMonth(cache, dir, now) == ScoresOfDates(cache, dir, GetCurrentMonthDates(now))

\* fetchJSON('data/all-time.json'): the parsed file, or null
LoadedAllTime(file) == IF file.exists /\ file.parses THEN file ELSE AbsentFile

\* case 'alltime'
ScoresAllTime(allTime, cache, dir, now) ==
  IF ~(allTime.exists /\ allTime.parses) THEN [result |-> NoData, cache |-> cache]
  ELSE
    LET loaded == LoadMultipleDays(cache, dir, GetLastNDays(now, AllTimeDays))
        board(id) ==
          LET has == id \in DOMAIN allTime.games
              scores == IF has THEN Slice(allTime.games[id].scores, TopN) ELSE <<>>
          IN [scores |-> scores,
              topAvatar |-> IF scores # <<>> /\ loaded.data # <<>>
                            THEN FindAvatarForUser(loaded.data, id, scores[1].username, TRUE)
                            ELSE IF has THEN allTime.games[id].topAvatar ELSE Null]
    IN [result |-> [hasData |-> TRUE, boards |-> [id \in AppGameIds |-> board(id)]],
        cache |-> loaded.cache]

Periods == {"today", "yesterday"}
AllPeriods == Periods \cup {"week", "month", "alltime"}

GetScoresForPeriod(period, allTime, cache, dir, now) ==
  CASE period = "today" -> ScoresToday(cache, dir, now)
    [] period = "yesterday" -> ScoresYesterday(cache, dir, now)
    [] period = "week" -> ScoresWeek(cache, dir, now)
    [] period = "month" -> ScoresMonth(cache, dir, now)
    [] period = "alltime" -> ScoresAllTime(allTime, cache, dir, now)
    [] OTHER -> [result |-> NoData, cache |-> cache]

(***************************************************************************)
(* main(): the ingestion process                                           *)
(***************************************************************************)
Files == [allTime |-> allTimeFile, daily |-> dailyDir]

NeverRun == [d \in Days |-> [seen |-> FALSE, games |-> NoGames]]

\* fetchHighscoresPage throws: the catch of main calls process.exit(1)
FetchFails(resp) ==
  /\ pc \in {"idle", "exited"}
  /\ runs < MaxRuns
  /\ FetchThrows(resp)
  /\ runs' = runs + 1
  /\ response' = resp
  /\ startFiles' = Files
  /\ pc' = "exited"
  /\ exitCode' = 1
  /\ UNCHANGED <<today, allTimeFile, dailyDir, games, pacificDate, beforeFile, remerged,
                 lastRunOn, appVars, allTimeData, indexVars, renderVars, procs, loadVars>>

\* fetchHighscoresPage, parseAllGames, getPacificDate
FetchAndParse(resp) ==
  /\ pc \in {"idle", "exited"}
  /\ runs < MaxRuns
  /\ ~FetchThrows(resp)
  /\ runs' = runs + 1
  /\ response' = resp
  /\ startFiles' = Files
  /\ games' = ParseAllGames(resp.body)
  /\ pacificDate' = today
  /\ lastRunOn' = [lastRunOn EXCEPT ![today] = [seen |-> TRUE, games |-> games']]
  /\ pc' = "parsed"
  /\ UNCHANGED <<today, allTimeFile, dailyDir, exitCode, beforeFile, remerged, appVars,
                 allTimeData, indexVars, renderVars, procs, loadVars>>

\* await saveDailySnapshot(games, pacificDate)
SaveStep ==
  /\ pc = "parsed"
  /\ dailyDir' = SaveDailySnapshot(dailyDir, games, pacificDate, runs)
  /\ pc' = "saved"
  /\ UNCHANGED <<today, allTimeFile, response, games, pacificDate, exitCode, runs,
                 beforeFile, remerged, startFiles, lastRunOn, appVars, allTimeData, indexVars,
                 renderVars, procs, loadVars>>

\* await updateAllTimeScores(games, pacificDate), then the process ends
UpdateStep ==
  /\ pc = "saved"
  /\ beforeFile' = allTimeFile
  /\ remerged' = FALSE
  /\ pc' = "exited"
  /\ IF UpdateThrows(allTimeFile, games, pacificDate)
     THEN exitCode' = 1 /\ UNCHANGED allTimeFile
     ELSE /\ exitCode' = 0
          /\ allTimeFile' = UpdateAllTimeScores(allTimeFile, games, pacificDate)
  /\ UNCHANGED <<today, dailyDir, response, games, pacificDate, runs, startFiles,
                 lastRunOn, appVars, allTimeData, indexVars, renderVars, procs, loadVars>>

\* updateAllTimeScores called once more with the games and the date of the call before
UpdateAgain ==
  /\ pc = "exited" /\ exitCode = 0 /\ ~remerged
  /\ beforeFile' = allTimeFile
  /\ remerged' = TRUE
  /\ allTimeFile' = UpdateAllTimeScores(allTimeFile, games, pacificDate)
  /\ UNCHANGED <<today, dailyDir, pc, response, games, pacificDate, exitCode, runs,
                 startFiles, lastRunOn, appVars, allTimeData, indexVars, renderVars, procs,
                 loadVars>>

\* midnight, Pacific time
Midnight ==
  /\ today < MaxDay
  /\ today' = today + 1
  /\ UNCHANGED <<scraperVars, appVars, allTimeData, indexVars, renderVars, procs, loadVars>>

\* the dashboard asks for the leaderboards of a period
Query(period) ==
  LET r == GetScoresForPeriod(period, allTimeData, dailyDataCache, dailyDir, today)
  IN /\ queryPeriod' = period
     /\ queryDay' = GetPacificDate(today)
     /\ queryResult' = r.result
     /\ dailyDataCache' = r.cache
     /\ UNCHANGED <<today, scraperVars, allTimeData, indexVars, renderVars, procs, loadVars>>

(***************************************************************************)
(* The system: ingestion processes one after the other, a dashboard        *)
(* session, the clock.                                                     *)
(***************************************************************************)
Init ==
  /\ today = 1
  /\ allTimeFile \in {AbsentFile, UnparseableFile, NoGamesFile(1)}
  /\ dailyDir = {}
  /\ pc = "idle"
  /\ response = NoResponse
  /\ games = NoGames
  /\ pacificDate = 0
  /\ exitCode = 0
  /\ runs = 0
  /\ dailyDataCache = EmptyCache
  /\ queryPeriod = "none"
  /\ queryDay = 0
  /\ queryResult = NoData
  /\ beforeFile = allTimeFile
  /\ remerged = FALSE
  /\ startFiles = [allTime |-> allTimeFile, daily |-> dailyDir]
  /\ lastRunOn = NeverRun
  /\ allTimeData = AbsentFile
  /\ users = NoUsers
  /\ seedPos = 0
  /\ usersFile = NoUsersFile
  /\ seedPc = "idle"
  /\ prevUsersFile = NoUsersFile
  /\ currentPeriod = "today"
  /\ inflight = <<>>
  /\ shown = NotShown
  /\ procs = NoProcs
  /\ loads = NoLoads
  /\ returned = EmptyCache

Next ==
  \/ \E resp \in Responses : FetchFails(resp)
  \/ \E resp \in Responses : FetchAndParse(resp)
  \/ SaveStep
  \/ UpdateStep
  \/ Midnight
  \/ \E period \in Periods : Query(period)

Spec == Init /\ [][Next]_vars

(***************************************************************************)
(* The merge engine on its own: updateAllTimeScores applied to a persisted *)
(* record and one scraped page, and applied again.                         *)
(***************************************************************************)
InitMerge ==
  /\ today = MaxDay
  /\ dailyDir = {}
  /\ runs = 1
  /\ pc = "saved"
  /\ response = NoResponse
  /\ exitCode = 0
  /\ remerged = FALSE
  /\ pacificDate \in Days
  /\ \E j \in 0..MaxItems :
       /\ allTimeFile \in PersistedFiles(j)
       /\ \E ht \in ItemSplits(MaxItems - j), hUrl \in HighscoresUrls, tUrl \in TodayUrls :
            games = ParseAllGames(<<MergeSection(ht[1], hUrl, ht[2], tUrl)>>)
  /\ dailyDataCache = EmptyCache
  /\ queryPeriod = "none"
  /\ queryDay = 0
  /\ queryResult = NoData
  /\ beforeFile = allTimeFile
  /\ startFiles = [allTime |-> allTimeFile, daily |-> dailyDir]
  /\ lastRunOn = NeverRun
  /\ allTimeData = AbsentFile
  /\ users = NoUsers
  /\ seedPos = 0
  /\ usersFile = NoUsersFile
  /\ seedPc = "idle"
  /\ prevUsersFile = NoUsersFile
  /\ currentPeriod = "today"
  /\ inflight = <<>>
  /\ shown = NotShown
  /\ procs = NoProcs
  /\ loads = NoLoads
  /\ returned = EmptyCache

NextMerge == UpdateStep \/ UpdateAgain

SpecMerge == InitMerge /\ [][NextMerge]_vars

(***************************************************************************)
(* The merge engine on pages of players whose names differ in letter case  *)
(* only.                                                                   *)
(***************************************************************************)
MaxCased == 2     \* list items scraped in one behaviour of this specification

CasedItems == {Li(u, s) : u \in {"Ariel", "ARIEL", "Bob"}, s \in Scores}

CasedSplits(k) ==
  UNION { {<<h, t>> : h \in [1..ab[1] -> CasedItems], t \in [1..ab[2] -> CasedItems]} :
          ab \in {x \in (0..k) \X (0..k) : x[1] + x[2] <= k} }

\* all-time.json as an earlier run (on day 1) left it
CasedFiles(j) ==
  {UpdateAllTimeScores(AbsentFile,
                       ParseAllGames(<<MergeSection(h, Avatar9f, <<>>, Null)>>), 1) :
     h \in [1..j -> CasedItems]}
  \cup (IF j = 0 THEN {AbsentFile} ELSE {})

InitCased ==
  /\ today = MaxDay
  /\ dailyDir = {}
  /\ runs = 1
  /\ pc = "saved"
  /\ response = NoResponse
  /\ exitCode = 0
  /\ remerged = FALSE
  /\ pacificDate \in Days
  /\ \E j \in 0..MaxCased :
       /\ allTimeFile \in CasedFiles(j)
       /\ \E ht \in CasedSplits(MaxCased - j) :
            games = ParseAllGames(<<MergeSection(ht[1], Avatar9f, ht[2], Avatar0a1b)>>)
  /\ dailyDataCache = EmptyCache
  /\ queryPeriod = "none"
  /\ queryDay = 0
  /\ queryResult = NoData
  /\ beforeFile = allTimeFile
  /\ startFiles = [allTime |-> allTimeFile, daily |-> dailyDir]
  /\ lastRunOn = NeverRun
  /\ allTimeData = AbsentFile
  /\ users = NoUsers
  /\ seedPos = 0
  /\ usersFile = NoUsersFile
  /\ seedPc = "idle"
  /\ prevUsersFile = NoUsersFile
  /\ currentPeriod = "today"
  /\ inflight = <<>>
  /\ shown = NotShown
  /\ procs = NoProcs
  /\ loads = NoLoads
  /\ returned = EmptyCache

SpecCased == InitCased /\ [][NextMerge]_vars

(***************************************************************************)
(* The dashboard over a store that earlier ingestion processes left: on    *)
(* each day up to today no process ran, or one did and scraped one of the  *)
(* pages below.                                                            *)
(***************************************************************************)
MaxStored == 3   \* days on which an ingestion process may have run


\* more list items than a leaderboard shows
LongItems == [i \in 1..(TopN + 1) |-> Li("Player" \o ToString(i), 2000 - 10 * i)]

Section1 ==
  [today |-> Column(Avatar0a1b, <<Li("Ariel", 100)>>),
   yesterday |-> Column(Null, <<Li("Ariel", 100)>>),
   highscores |-> Column(Avatar9f, <<Li("Ariel", 250), Li("Bob", 100)>>)]

Section2 ==
  [today |-> Column(Null, <<Li("Bob", 250), BadItem, Li("Ariel", 100)>>),
   yesterday |-> Column(Avatar0a1b, <<Li("Ariel", 250), Li("Bob", 100)>>),
   highscores |-> Column("https://cdn/img/placeholder.gif",
                         <<BadItem, Li("Bob", 250), Li("Ariel", 250)>>)]

Section3 ==
  [today |-> Column(Avatar0a1b, <<Li("Bob", 300), Li("Cleo", 0)>>),
   yesterday |-> Column(Avatar9f, <<Li("Ariel", 180)>>),
   highscores |-> Column(Avatar9f, <<Li("Ariel", 250), Li("Bob", 100)>>)]

SectionLong ==
  [today |-> Column(Avatar0a1b, LongItems),
   yesterday |-> Column(Avatar0a1b, LongItems),
   highscores |-> Column(Avatar0a1b, LongItems)]

StoredPages == {<<>>, <<Section1>>, <<Section2>>, <<Section3, Section1>>, <<SectionLong>>}

EmptyStore == [allTime |-> AbsentFile, daily |-> {}]

\* main() from start to exit on a page that was fetched: parse, snapshot, merge
IngestRun(store, page, date, at) ==
  LET gms == ParseAllGames(page)
  IN [daily |-> SaveDailySnapshot(store.daily, gms, date, at),
      allTime |-> IF UpdateThrows(store.allTime, gms, date) THEN store.allTime
                  ELSE UpdateAllTimeScores(store.allTime, gms, date)]

RECURSIVE StoresOf(_, _)
StoresOf(pages, day) ==
  IF day = 0 THEN {EmptyStore}
  ELSE LET before == StoresOf(pages, day - 1)
       IN before \cup {IngestRun(st, page, day, day) : st \in before, page \in pages}

StoresAfter(day) == StoresOf(StoredPages, day)

\* init(): the all-time record and the files of today and of the day before are
\* loaded, then renderAllLeaderboards() shows currentPeriod = 'today'
AppInit ==
  /\ queryPeriod = "none"
  /\ LET allTime == LoadedAllTime(allTimeFile)
         first == LoadDailyData(dailyDataCache, dailyDir, GetPacificDate(today))
         second == LoadDailyData(first.cache, dailyDir, GetYesterdayPacific(today))
         r == GetScoresForPeriod("today", allTime, second.cache, dailyDir, today)
     IN /\ allTimeData' = allTime
        /\ queryPeriod' = "today"
        /\ queryDay' = GetPacificDate(today)
        /\ queryResult' = r.result
        /\ dailyDataCache' = r.cache
  /\ UNCHANGED <<today, scraperVars, indexVars, renderVars, procs, loadVars>>

\* handlePeriodChange: a period tab is clicked once the page is up
PeriodChange(period) ==
  /\ queryPeriod # "none"
  /\ Query(period)

InitQuery ==
  /\ today \in 1..(MaxStored + 1)
  /\ \E st \in StoresAfter(Min(today, MaxStored)) :
       /\ allTimeFile = st.allTime
       /\ dailyDir = st.daily
  /\ pc = "exited"
  /\ response = NoResponse
  /\ games = NoGames
  /\ pacificDate = 0
  /\ exitCode = 0
  /\ runs = 0
  /\ dailyDataCache = EmptyCache
  /\ queryPeriod = "none"
  /\ queryDay = 0
  /\ queryResult = NoData
  /\ beforeFile = allTimeFile
  /\ remerged = FALSE
  /\ startFiles = [allTime |-> allTimeFile, daily |-> dailyDir]
  /\ lastRunOn = NeverRun
  /\ allTimeData = AbsentFile
  /\ users = NoUsers
  /\ seedPos = 0
  /\ usersFile = NoUsersFile
  /\ seedPc = "idle"
  /\ prevUsersFile = NoUsersFile
  /\ currentPeriod = "today"
  /\ inflight = <<>>
  /\ shown = NotShown
  /\ procs = NoProcs
  /\ loads = NoLoads
  /\ returned = EmptyCache

NextQuery ==
  \/ AppInit
  \/ \E period \in AllPeriods : PeriodChange(period)

SpecQuery == InitQuery /\ [][NextQuery]_vars

(***************************************************************************)
(* The dashboard in 'all' view mode: handlePeriodChange starts a           *)
(* renderAllLeaderboards call and does not wait for it; a call whose       *)
(* snapshots are not all cached waits for the network and renders when its *)
(* loads are done.                                                         *)
(***************************************************************************)
MaxInflight == 2   \* renderAllLeaderboards calls waiting at the same time

\* the pages behind the stored snapshots of this specification
RenderedPages == {<<Section1>>, <<Section3, Section1>>}

\* the dates getScoresForPeriod passes to loadDailyData first
DatesOfPeriod(period, allTime, now) ==
  CASE period = "today" -> <<GetPacificDate(now)>>
    [] period = "yesterday" -> <<GetYesterdayPacific(now)>>
    [] period = "week" -> GetLastNDays(now, WeekDays)
    [] period = "month" -> GetCurrentMonthDates(now)
    [] period = "alltime" ->
         IF allTime.exists /\ allTime.parses THEN GetLastNDays(now, AllTimeDays) ELSE <<>>

\* loadDailyData: some date is not in dailyDataCache, fetchJSON is awaited
AwaitsFetch(period, allTime, cache, now) ==
  \E i \in 1..Len(DatesOfPeriod(period, allTime, now)) :
    DatesOfPeriod(period, allTime, now)[i] \notin DOMAIN cache

\* renderAllLeaderboards after its await: renderLeaderboard(gameId, data[gameId])
Rendered(period) ==
  LET r == GetScoresForPeriod(period, allTimeData, dailyDataCache, dailyDir, today)
  IN /\ shown' = [period |-> period, result |-> r.result]
     /\ queryPeriod' = period
     /\ queryDay' = GetPacificDate(today)
     /\ queryResult' = r.result
     /\ dailyDataCache' = r.cache

\* init(): the loads, then await renderAllLeaderboards() with currentPeriod = 'today'
RenderInit ==
  /\ shown = NotShown
  /\ LET allTime == LoadedAllTime(allTimeFile)
         first == LoadDailyData(dailyDataCache, dailyDir, GetPacificDate(today))
         second == LoadDailyData(first.cache, dailyDir, GetYesterdayPacific(today))
         r == GetScoresForPeriod(currentPeriod, allTime, second.cache, dailyDir, today)
     IN /\ allTimeData' = allTime
        /\ shown' = [period |-> currentPeriod, result |-> r.result]
        /\ queryPeriod' = currentPeriod
        /\ queryDay' = GetPacificDate(today)
        /\ queryResult' = r.result
        /\ dailyDataCache' = r.cache
  /\ UNCHANGED <<today, scraperVars, indexVars, currentPeriod, inflight, procs, loadVars>>

\* handlePeriodChange(period): the tab is clicked once the page is up
ClickPeriod(period) ==
  /\ shown # NotShown
  /\ currentPeriod' = period
  /\ IF AwaitsFetch(period, allTimeData, dailyDataCache, today)
     THEN /\ Len(inflight) < MaxInflight
          /\ inflight' = Append(inflight, period)
          /\ UNCHANGED <<appVars, shown>>
     ELSE /\ Rendered(period)
          /\ UNCHANGED inflight
  /\ UNCHANGED <<today, scraperVars, allTimeData, indexVars, procs, loadVars>>

\* the loads of the i-th waiting call are done: it renders
RenderDone(i) ==
  /\ i \in 1..Len(inflight)
  /\ Rendered(inflight[i])
  /\ inflight' = [j \in 1..(Len(inflight) - 1) |->
                    IF j < i THEN inflight[j] ELSE inflight[j + 1]]
  /\ UNCHANGED <<today, scraperVars, allTimeData, indexVars, currentPeriod, procs, loadVars>>

InitRender ==
  /\ today = MaxStored
  /\ \E st \in StoresOf(RenderedPages, MaxStored) :
       /\ allTimeFile = st.allTime
       /\ dailyDir = st.daily
  /\ pc = "exited"
  /\ response = NoResponse
  /\ games = NoGames
  /\ pacificDate = 0
  /\ exitCode = 0
  /\ runs = 0
  /\ dailyDataCache = EmptyCache
  /\ queryPeriod = "none"
  /\ queryDay = 0
  /\ queryResult = NoData
  /\ beforeFile = allTimeFile
  /\ remerged = FALSE
  /\ startFiles = [allTime |-> allTimeFile, daily |-> dailyDir]
  /\ lastRunOn = NeverRun
  /\ allTimeData = AbsentFile
  /\ users = NoUsers
  /\ seedPos = 0
  /\ usersFile = NoUsersFile
  /\ seedPc = "idle"
  /\ prevUsersFile = NoUsersFile
  /\ currentPeriod = "today"
  /\ inflight = <<>>
  /\ shown = NotShown
  /\ procs = NoProcs
  /\ loads = NoLoads
  /\ returned = EmptyCache

NextRender ==
  \/ RenderInit
  \/ \E period \in AllPeriods : ClickPeriod(period)
  \/ \E i \in 1..MaxInflight : RenderDone(i)

SpecRender == InitRender /\ [][NextRender]_vars

(***************************************************************************)
(* One dashboard session whose loadDailyData calls overlap: init() awaits  *)
(* its loads while a click on a period tab starts getScoresForPeriod, and  *)
(* every call that misses the cache awaits a fetchJSON of its own.         *)
(* Ingestion processes run one after the other in the meantime.            *)
(***************************************************************************)
LoadIds == {1, 2}

\* the pages the ingestion processes of this specification are served
LoadResponses == {resp \in Responses : resp.body \in {<<SectionA>>, <<SectionB, SectionA>>}}

\* the dates init() and the 'today' and 'yesterday' cases pass to loadDailyData
LoadDates(now) == {GetPacificDate(now), GetYesterdayPacific(now)}

IdleLoad == [pc |-> "idle", date |-> 0, later |-> FALSE, found |-> FALSE, data |-> NoSnapshot]

\* history: the snapshot is noted the first time a load of the date returns one
Note(ret, date, data) ==
  IF date \in DOMAIN ret THEN ret
  ELSE [d \in DOMAIN ret \cup {date} |-> IF d = date THEN data ELSE ret[d]]

\* loadDailyData(date) is called: if (dailyDataCache.has(date)) return dailyDataCache.get(date),
\* otherwise fetchJSON is awaited
LoadCall(c, date) ==
  /\ loads[c].pc # "fetching"
  /\ IF date \in DOMAIN dailyDataCache
     THEN /\ loads' = [loads EXCEPT ![c] = [pc |-> "returned", date |-> date,
                                            later |-> date \in DOMAIN returned,
                                            found |-> TRUE, data |-> dailyDataCache[date]]]
          /\ returned' = Note(returned, date, dailyDataCache[date])
     ELSE /\ loads' = [loads EXCEPT ![c] = [pc |-> "fetching", date |-> date,
                                            later |-> date \in DOMAIN returned,
                                            found |-> FALSE, data |-> NoSnapshot]]
          /\ UNCHANGED returned
  /\ UNCHANGED <<today, scraperVars, appVars, allTimeData, indexVars, renderVars, procs>>

\* fetchJSON resolves: if (data) dailyDataCache.set(date, data); return data
LoadReturn(c) ==
  /\ loads[c].pc = "fetching"
  /\ LET date == loads[c].date
         r == FetchJSON(dailyDir, SnapshotFilename(date))
     IN /\ dailyDataCache' = IF r.found
                             THEN [d \in DOMAIN dailyDataCache \cup {date} |->
                                     IF d = date THEN r.data ELSE dailyDataCache[d]]
                             ELSE dailyDataCache
        /\ loads' = [loads EXCEPT ![c].pc = "returned", ![c].found = r.found,
                                  ![c].data = r.data]
        /\ returned' = IF r.found THEN Note(returned, date, r.data) ELSE returned
  /\ UNCHANGED <<today, scraperVars, queryPeriod, queryDay, queryResult, allTimeData,
                 indexVars, renderVars, procs>>

InitLoads ==
  /\ today = 1
  /\ allTimeFile \in {AbsentFile, UnparseableFile, NoGamesFile(1)}
  /\ dailyDir = {}
  /\ pc = "idle"
  /\ response = NoResponse
  /\ games = NoGames
  /\ pacificDate = 0
  /\ exitCode = 0
  /\ runs = 0
  /\ dailyDataCache = EmptyCache
  /\ queryPeriod = "none"
  /\ queryDay = 0
  /\ queryResult = NoData
  /\ beforeFile = allTimeFile
  /\ remerged = FALSE
  /\ startFiles = [allTime |-> allTimeFile, daily |-> dailyDir]
  /\ lastRunOn = NeverRun
  /\ allTimeData = AbsentFile
  /\ users = NoUsers
  /\ seedPos = 0
  /\ usersFile = NoUsersFile
  /\ seedPc = "idle"
  /\ prevUsersFile = NoUsersFile
  /\ currentPeriod = "today"
  /\ inflight = <<>>
  /\ shown = NotShown
  /\ procs = NoProcs
  /\ loads = [c \in LoadIds |-> IdleLoad]
  /\ returned = EmptyCache

NextLoads ==
  \/ \E resp \in LoadResponses : FetchAndParse(resp)
  \/ SaveStep
  \/ UpdateStep
  \/ Midnight
  \/ \E c \in LoadIds, date \in LoadDates(today) : LoadCall(c, date)
  \/ \E c \in LoadIds : LoadReturn(c)

SpecLoads == InitLoads /\ [][NextLoads]_vars

(***************************************************************************)
(* seed-users.js: seedUsersIndex rebuilds data/users.json from the daily   *)
(* files and all-time.json.                                                *)
(***************************************************************************)
GAME_IDS == <<"castle-fireworks", "pirates", "haunted-mansion", "jungle-cruise">>
SeedPeriods == <<"yesterday", "today", "highscores">>

NoDate == 0          \* date: null
NoRank == 0          \* rank: null
DefaultRank == 999

\* files.filter(f => f.endsWith('.json')).sort(): the file names order as the dates do
RECURSIVE SortedFiles(_)
SortedFiles(dir) ==
  IF dir = {} THEN <<>>
  ELSE LET first == CHOOSE f \in dir : \A g \in dir : f.content.date <= g.content.date
       IN <<first.content>> \o SortedFiles(dir \ {first})

\* scores.forEach((entry, idx) => ...): what one call of the callback is given
PeriodEntries(data, gameId, period) ==
  LET periodData == data.games[gameId][period]
  IN [i \in 1..Len(periodData.scores) |->
        [date |-> data.date, gameId |-> gameId, period |-> period, idx |-> i - 1,
         entry |-> periodData.scores[i], topAvatar |-> periodData.topAvatar]]

GameEntries(data, gameId) ==
  IF gameId \notin DOMAIN data.games THEN <<>>
  ELSE PeriodEntries(data, gameId, SeedPeriods[1])
       \o PeriodEntries(data, gameId, SeedPeriods[2])
       \o PeriodEntries(data, gameId, SeedPeriods[3])

FileEntries(data) ==
  GameEntries(data, GAME_IDS[1]) \o GameEntries(data, GAME_IDS[2])
  \o GameEntries(data, GAME_IDS[3]) \o GameEntries(data, GAME_IDS[4])

\* the calls of the callback, in the order of the four nested loops
RECURSIVE EntriesOfFiles(_)
EntriesOfFiles(files) ==
  IF files = <<>> THEN <<>>
  ELSE FileEntries(Head(files)) \o EntriesOfFiles(Tail(files))

SeedEntries(dir) == EntriesOfFiles(SortedFiles(dir))

NewUser ==
  [avatar |-> Null, lastSeen |-> NoDate,
   lastAppearance |-> [game |-> Null, rank |-> NoRank, date |-> NoDate],
   games |-> NoGames]

NewGameStats == [bestScore |-> 0, date |-> NoDate, rank |-> NoRank, allTimeRank |-> NoRank]

\* !user.lastSeen || date > user.lastSeen
IsNewerDate(user, date) == user.lastSeen = NoDate \/ date > user.lastSeen

\* mutant: any sighting on the date already stored replaces lastAppearance
IsSameDate(user, date, rank) == date = user.lastSeen

\* date === user.lastSeen && rank < (user.lastAppearance?.rank || 999)
IsBetterRankSameDate(user, date, rank) ==
  /\ date = user.lastSeen
  /\ rank < (IF user.lastAppearance.rank # NoRank THEN user.lastAppearance.rank
             ELSE DefaultRank)

\* mutant: a score equal to the stored best replaces it, with its date and rank
IsBestScoreOrEqual(stats, score) == score >= stats.bestScore

\* score > user.games[gameId].bestScore
IsBestScore(stats, score) == score > stats.bestScore

\* the body of the callback, on the record of the user
SeedUser(user, e) ==
  LET rank == IF e.entry.rank # NoRank THEN e.entry.rank ELSE e.idx + 1
      withAvatar == IF rank = 1 /\ e.topAvatar # Null
                    THEN [user EXCEPT !.avatar = e.topAvatar] ELSE user
      appearance == [game |-> e.gameId, rank |-> rank, date |-> e.date]
      withSeen == IF IsNewerDate(withAvatar, e.date)
                  THEN [withAvatar EXCEPT !.lastSeen = e.date, !.lastAppearance = appearance]
                  ELSE IF IsBetterRankSameDate(withAvatar, e.date, rank)
                       THEN [withAvatar EXCEPT !.lastAppearance = appearance]
                       ELSE withAvatar
      stats == IF e.gameId \in DOMAIN withSeen.games THEN withSeen.games[e.gameId]
               ELSE NewGameStats
      newStats == IF IsBestScore(stats, e.entry.score)
                  THEN [stats EXCEPT !.bestScore = e.entry.score, !.date = e.date,
                                     !.rank = rank]
                  ELSE stats
  IN [withSeen EXCEPT !.games =
        [g \in DOMAIN withSeen.games \cup {e.gameId} |->
           IF g = e.gameId THEN newStats ELSE withSeen.games[g]]]

\* the callback: the user is created on first sight
SeedEntry(us, e) ==
  LET username == e.entry.username
      user == IF username \in DOMAIN us THEN us[username] ELSE NewUser
  IN [u \in DOMAIN us \cup {username} |->
        IF u = username THEN SeedUser(user, e) ELSE us[u]]

\* the 1-based position of the username in the all-time list of the game, if any
AllTimeRankOf(allTime, gameId, username, old) ==
  LET scores == IF gameId \in DOMAIN allTime.games THEN allTime.games[gameId].scores
                ELSE <<>>
      hits == {i \in 1..Len(scores) : scores[i].username = username}
  IN IF hits = {} THEN old
     ELSE CHOOSE i \in hits : \A j \in hits : j <= i

\* the all-time ranks: all-time.json that cannot be read or parsed is skipped
WithAllTimeRanks(us, allTime) ==
  IF ~(allTime.exists /\ allTime.parses) THEN us
  ELSE [u \in DOMAIN us |->
          [us[u] EXCEPT !.games =
             [g \in DOMAIN us[u].games |->
                [us[u].games[g] EXCEPT
                   !.allTimeRank = AllTimeRankOf(allTime, g, u, us[u].games[g].allTimeRank)]]]]

\* one call of the callback of scores.forEach
SeedStep ==
  /\ seedPc = "run"
  /\ seedPos < Len(SeedEntries(dailyDir))
  /\ users' = SeedEntry(users, SeedEntries(dailyDir)[seedPos + 1])
  /\ seedPos' = seedPos + 1
  /\ UNCHANGED <<today, scraperVars, appVars, allTimeData, usersFile, seedPc, prevUsersFile,
                 renderVars, procs, loadVars>>

\* after the loops: the all-time ranks, then users.json is written
SeedFinish ==
  /\ seedPc = "run"
  /\ seedPos = Len(SeedEntries(dailyDir))
  /\ users' = WithAllTimeRanks(users, allTimeFile)
  /\ \E utcDate \in {today, today + 1} :
       usersFile' = [exists |-> TRUE, lastUpdated |-> utcDate,
                     userCount |-> Cardinality(DOMAIN users'), users |-> users']
  /\ seedPc' = "written"
  /\ UNCHANGED <<today, scraperVars, appVars, allTimeData, seedPos, prevUsersFile,
                 renderVars, procs, loadVars>>

\* seed-users.js is run once more over the same files
SeedAgain ==
  /\ seedPc = "written"
  /\ ~prevUsersFile.exists
  /\ prevUsersFile' = usersFile
  /\ users' = NoUsers
  /\ seedPos' = 0
  /\ seedPc' = "run"
  /\ UNCHANGED <<today, scraperVars, appVars, allTimeData, usersFile, renderVars, procs, loadVars>>

\* the pages whose snapshots the index is rebuilt from
IndexedPages == {<<>>, <<Section1>>, <<Section2>>, <<Section3, Section1>>}

InitIndex ==
  /\ today = MaxStored
  /\ \E st \in StoresOf(IndexedPages, MaxStored) :
       /\ allTimeFile = st.allTime
       /\ dailyDir = st.daily
  /\ pc = "exited"
  /\ response = NoResponse
  /\ games = NoGames
  /\ pacificDate = 0
  /\ exitCode = 0
  /\ runs = 0
  /\ dailyDataCache = EmptyCache
  /\ queryPeriod = "none"
  /\ queryDay = 0
  /\ queryResult = NoData
  /\ beforeFile = allTimeFile
  /\ remerged = FALSE
  /\ startFiles = [allTime |-> allTimeFile, daily |-> dailyDir]
  /\ lastRunOn = NeverRun
  /\ allTimeData = AbsentFile
  /\ users = NoUsers
  /\ seedPos = 0
  /\ usersFile = NoUsersFile
  /\ seedPc = "run"
  /\ prevUsersFile = NoUsersFile
  /\ currentPeriod = "today"
  /\ inflight = <<>>
  /\ shown = NotShown
  /\ procs = NoProcs
  /\ loads = NoLoads
  /\ returned = EmptyCache

NextIndex == SeedStep \/ SeedFinish \/ SeedAgain

SpecIndex == InitIndex /\ [][NextIndex]_vars

(***************************************************************************)
(* Two ingestion processes started side by side.  Inside                   *)
(* updateAllTimeScores the await of fs.readFile and the await of           *)
(* fs.writeFile are separate steps of a process.                           *)
(***************************************************************************)
ProcIds == {1, 2}

IdleProc ==
  [pc |-> "idle", games |-> NoGames, pacificDate |-> 0, allTime |-> AbsentFile,
   exitCode |-> 0, writesSeen |-> 0, writeNo |-> 0]

\* the number of processes that have written all-time.json
Writes == Cardinality({q \in ProcIds : procs[q].writeNo > 0})

\* fetchHighscoresPage throws: the catch of main calls process.exit(1)
ProcFetchFails(p, resp) ==
  /\ procs[p].pc = "idle"
  /\ FetchThrows(resp)
  /\ procs' = [procs EXCEPT ![p].pc = "exited", ![p].exitCode = 1]
  /\ UNCHANGED <<today, scraperVars, appVars, allTimeData, indexVars, renderVars, loadVars>>

\* fetchHighscoresPage, parseAllGames, getPacificDate
ProcFetchAndParse(p, resp) ==
  /\ procs[p].pc = "idle"
  /\ ~FetchThrows(resp)
  /\ procs' = [procs EXCEPT ![p].pc = "parsed", ![p].games = ParseAllGames(resp.body),
                            ![p].pacificDate = today]
  /\ UNCHANGED <<today, scraperVars, appVars, allTimeData, indexVars, renderVars, loadVars>>

\* await saveDailySnapshot(games, pacificDate)
ProcSave(p) ==
  /\ procs[p].pc = "parsed"
  /\ dailyDir' = SaveDailySnapshot(dailyDir, procs[p].games, procs[p].pacificDate, p)
  /\ procs' = [procs EXCEPT ![p].pc = "saved"]
  /\ UNCHANGED <<today, allTimeFile, pc, response, games, pacificDate, exitCode, runs,
                 beforeFile, remerged, startFiles, lastRunOn, appVars, allTimeData,
                 indexVars, renderVars, loadVars>>

\* updateAllTimeScores: await fs.readFile(allTimePath)
ProcRead(p) ==
  /\ procs[p].pc = "saved"
  /\ procs' = [procs EXCEPT ![p].pc = "read", ![p].allTime = allTimeFile,
                            ![p].writesSeen = Writes]
  /\ UNCHANGED <<today, scraperVars, appVars, allTimeData, indexVars, renderVars, loadVars>>

\* mutant: the record is read again from the disk at the time of the write
RecordOnDisk(p) == allTimeFile

\* updateAllTimeScores: let allTime, as parsed from what readFile returned
RecordRead(p) == procs[p].allTime

\* updateAllTimeScores: the merge, then await fs.writeFile(allTimePath); the process ends
ProcWrite(p) ==
  /\ procs[p].pc = "read"
  /\ IF UpdateThrows(RecordRead(p), procs[p].games, procs[p].pacificDate)
     THEN /\ procs' = [procs EXCEPT ![p].pc = "exited", ![p].exitCode = 1]
          /\ UNCHANGED allTimeFile
     ELSE /\ allTimeFile' = UpdateAllTimeScores(RecordRead(p), procs[p].games,
                                                procs[p].pacificDate)
          /\ procs' = [procs EXCEPT ![p].pc = "exited", ![p].writeNo = Writes + 1]
  /\ UNCHANGED <<today, dailyDir, pc, response, games, pacificDate, exitCode, runs,
                 beforeFile, remerged, startFiles, lastRunOn, appVars, allTimeData,
                 indexVars, renderVars, loadVars>>

InitOverlap ==
  /\ today = MaxDay
  /\ allTimeFile \in {AbsentFile, UnparseableFile, NoGamesFile(1),
                      UpdateAllTimeScores(AbsentFile, ParseAllGames(<<SectionB>>), 1)}
  /\ dailyDir = {}
  /\ pc = "idle"
  /\ response = NoResponse
  /\ games = NoGames
  /\ pacificDate = 0
  /\ exitCode = 0
  /\ runs = 0
  /\ dailyDataCache = EmptyCache
  /\ queryPeriod = "none"
  /\ queryDay = 0
  /\ queryResult = NoData
  /\ beforeFile = allTimeFile
  /\ remerged = FALSE
  /\ startFiles = [allTime |-> allTimeFile, daily |-> dailyDir]
  /\ lastRunOn = NeverRun
  /\ allTimeData = AbsentFile
  /\ users = NoUsers
  /\ seedPos = 0
  /\ usersFile = NoUsersFile
  /\ seedPc = "idle"
  /\ prevUsersFile = NoUsersFile
  /\ currentPeriod = "today"
  /\ inflight = <<>>
  /\ shown = NotShown
  /\ procs = [p \in ProcIds |-> IdleProc]
  /\ loads = NoLoads
  /\ returned = EmptyCache

NextOverlap ==
  \E p \in ProcIds :
    \/ \E resp \in Responses : ProcFetchFails(p, resp)
    \/ \E resp \in Responses : ProcFetchAndParse(p, resp)
    \/ ProcSave(p)
    \/ ProcRead(p)
    \/ ProcWrite(p)

SpecOverlap == InitOverlap /\ [][NextOverlap]_vars

(***************************************************************************)
(* The claims about the merge engine (SpecMerge).                          *)
(***************************************************************************)
\* the last updateAllTimeScores call returned (and wrote all-time.json)
UpdateReturned == pc = "exited" /\ exitCode = 0

\* that call found an all-time record of the game
HadRecord(id) == beforeFile.exists /\ beforeFile.parses /\ id \in DOMAIN beforeFile.games

SameEntry(a, b) ==
  a.username = b.username /\ a.score = b.score /\ a.achievedOn = b.achievedOn

\* C1: running updateAllTimeScores a second time with the same games and the same
\* date leaves all-time.json exactly as the first run left it.
C1_MergeIdempotent == remerged => allTimeFile = beforeFile

\* C2: after a merge (the seeding of a game included) the list of every merged game
\* has at most 50 entries, is sorted by score in non-increasing order and carries
\* the ranks 1..length in list order.
C2_TopNInvariant ==
  UpdateReturned =>
    \A id \in DOMAIN games :
      LET list == allTimeFile.games[id].scores
      IN /\ Len(list) <= 50
         /\ \A i, j \in 1..Len(list) : i < j => list[i].score >= list[j].score
         /\ \A i \in 1..Len(list) : list[i].rank = i

\* C3: best score wins, first achieved wins a tie.  Whenever a candidate (u, s2)
\* of the highscores or today block is merged at date d2 into a map that holds
\* an entry (u, s1, d1), the entry becomes (u, s2, d2) if s2 > s1 and stays as it
\* is if s2 <= s1; and every entry of the written list carries the score and the
\* achievedOn its user had after the last candidate.
C3_BestScoreWins ==
  UpdateReturned =>
    \A id \in {g \in DOMAIN games : HadRecord(g)} :
      LET cands == Candidates(games[id])
          stored == MapOf(beforeFile.games[id].scores)
          final == MergeLoop(stored, cands, pacificDate)
          list == allTimeFile.games[id].scores
      IN /\ \A i \in 1..Len(cands) :
              LET m == MergeLoop(stored, SubSeq(cands, 1, i - 1), pacificDate)
                  u == cands[i].username
              IN MapHas(m, u) =>
                   LET prior == MapGet(m, u)
                       after == MapGet(MergeOne(m, cands[i], pacificDate), u)
                   IN /\ cands[i].score > prior.score =>
                           /\ after.score = cands[i].score
                           /\ after.achievedOn = pacificDate
                      /\ cands[i].score <= prior.score => after = prior
         /\ \A k \in 1..Len(list) :
              /\ MapHas(final, list[k].username)
              /\ SameEntry(list[k], MapGet(final, list[k].username))

\* a tie on a later day: the stored entry keeps its earlier achievedOn
C3_Witness ==
  /\ UpdateReturned
  /\ \E id \in {g \in DOMAIN games : HadRecord(g)} :
       \E k \in 1..Len(beforeFile.games[id].scores), i \in 1..Len(Candidates(games[id])),
          n \in 1..Len(allTimeFile.games[id].scores) :
         LET old == beforeFile.games[id].scores[k]
             cand == Candidates(games[id])[i]
         IN /\ old.username = cand.username
            /\ old.score = cand.score
            /\ old.achievedOn < pacificDate
            /\ SameEntry(allTimeFile.games[id].scores[n], old)

\* C4: after a merge no username occurs twice in the list of a merged game.
C4_UsernamesUnique ==
  UpdateReturned =>
    \A id \in DOMAIN games :
      LET list == allTimeFile.games[id].scores
      IN \A i, j \in 1..Len(list) : list[i].username = list[j].username => i = j

\* C5: cold start.  A game without an all-time record gets exactly the entries
\* of the incoming highscores block, in their order, each with achievedOn = the
\* ingestion date, and the top avatar of that block; the today block plays no part.
C5_ColdStartSeed ==
  UpdateReturned =>
    \A id \in {g \in DOMAIN games : ~HadRecord(g)} :
      LET block == games[id].highscores
          list == allTimeFile.games[id].scores
      IN /\ Len(list) = Len(block.scores)
         /\ \A i \in 1..Len(list) :
              /\ list[i].username = block.scores[i].username
              /\ list[i].score = block.scores[i].score
              /\ list[i].rank = block.scores[i].rank
              /\ list[i].achievedOn = pacificDate
         /\ allTimeFile.games[id].topAvatar = block.topAvatar

\* a seeded game whose today block names a user the highscores block does not
C5_Witness ==
  /\ UpdateReturned
  /\ \E id \in {g \in DOMAIN games : ~HadRecord(g)} :
       /\ games[id].highscores.scores # <<>>
       /\ \E i \in 1..Len(games[id].today.scores) :
            \A k \in 1..Len(games[id].highscores.scores) :
              games[id].highscores.scores[k].username # games[id].today.scores[i].username

\* C6: the top avatar of a game that had a record.  It stays as it was unless the
\* new first entry was achieved on the ingestion date; then it is the today
\* block's avatar if present, else the highscores block's if present, else as it was.
C6_TopAvatarRule ==
  UpdateReturned =>
    \A id \in {g \in DOMAIN games : HadRecord(g)} :
      LET old == beforeFile.games[id].topAvatar
          new == allTimeFile.games[id].topAvatar
          list == allTimeFile.games[id].scores
          t == games[id].today.topAvatar
          h == games[id].highscores.topAvatar
      IN IF list # <<>> /\ list[1].achievedOn = pacificDate
         THEN new = (IF t # Null THEN t ELSE IF h # Null THEN h ELSE old)
         ELSE new = old

\* the first entry is of an earlier day and the page carries another avatar
C6_Witness ==
  /\ UpdateReturned
  /\ \E id \in {g \in DOMAIN games : HadRecord(g)} :
       /\ allTimeFile.games[id].scores # <<>>
       /\ allTimeFile.games[id].scores[1].achievedOn < pacificDate
       /\ games[id].today.topAvatar # Null
       /\ games[id].today.topAvatar # beforeFile.games[id].topAvatar
       /\ Candidates(games[id]) # <<>>

(***************************************************************************)
(* The claims about the ingestion run and the queries (Spec).              *)
(***************************************************************************)
\* C7: a persisted all-time record that is malformed (it does not parse, or it
\* parses and has no games mapping) is treated as an absent one: the run ends
\* without a failure and leaves what a cold start from the page leaves.
C7_MalformedTreatedAsAbsent ==
  (/\ pc = "exited"
   /\ response.status = "ok"
   /\ beforeFile.exists
   /\ ~(beforeFile.parses /\ beforeFile.hasGames)) =>
    /\ exitCode = 0
    /\ allTimeFile = UpdateAllTimeScores(AbsentFile, games, pacificDate)

\* C8: a run whose fetch of the source page failed writes nothing: all-time.json
\* and every stored snapshot are as they were when the run started.
C8_FailedFetchWritesNothing ==
  response.status \in {"http-error", "network-error"} =>
    /\ allTimeFile = startFiles.allTime
    /\ dailyDir = startFiles.daily

\* a failed fetch after a run that stored a snapshot and an all-time record
C8_Witness ==
  /\ pc = "exited"
  /\ response.status = "http-error"
  /\ dailyDir # {}
  /\ allTimeFile.exists /\ allTimeFile.parses /\ DOMAIN allTimeFile.games # {}

\* the stored snapshots of a date
SnapshotsOf(dir, date) == {f.content : f \in {x \in dir : x.content.date = date}}

SameBlock(a, b) == a.topAvatar = b.topAvatar /\ a.scores = b.scores

\* the games of a snapshot are the games a run parsed
HoldsGames(snapshot, gms) ==
  /\ DOMAIN snapshot.games = DOMAIN gms
  /\ \A id \in DOMAIN gms :
       /\ snapshot.games[id].name = gms[id].name
       /\ SameBlock(snapshot.games[id].today, gms[id].today)
       /\ SameBlock(snapshot.games[id].yesterday, gms[id].yesterday)
       /\ SameBlock(snapshot.games[id].highscores, gms[id].highscores)

\* C9: snapshots are keyed by date.  Once a run has saved its snapshot, the store
\* holds for every date exactly one snapshot if a run parsed a page on that date,
\* with the games of the last such run, and none otherwise.
C9_OneSnapshotPerDate ==
  \A d \in Days :
    \/ pc = "parsed" /\ d = pacificDate
    \/ IF lastRunOn[d].seen
       THEN /\ Cardinality(SnapshotsOf(dailyDir, d)) = 1
            /\ \A snapshot \in SnapshotsOf(dailyDir, d) :
                 HoldsGames(snapshot, lastRunOn[d].games)
       ELSE SnapshotsOf(dailyDir, d) = {}

\* a second run on a date replaced the snapshot of the first, another date's is kept
C9_Witness ==
  /\ pc = "exited" /\ exitCode = 0
  /\ \E f \in dailyDir, g \in startFiles.daily :
       /\ f.content.date = g.content.date
       /\ f.content.games # g.content.games
  /\ \E f \in dailyDir : f.content.date # pacificDate

\* the snapshot of a date as the session has it: the cached one, else the stored one
SessionSnapshots(cache, dir, date) ==
  IF date \in DOMAIN cache THEN {cache[date]} ELSE SnapshotsOf(dir, date)

TodayBlocks(snapshot) ==
  [id \in {APP_GAMES[i] : i \in 1..Len(APP_GAMES)} |->
     IF id \in DOMAIN snapshot.games
     THEN [scores |-> snapshot.games[id].today.scores,
           topAvatar |-> snapshot.games[id].today.topAvatar]
     ELSE [scores |-> <<>>, topAvatar |-> Null]]

ReturnsTodayBlocksOf(result, snapshots) ==
  result.hasData /\ \A snapshot \in snapshots : result.boards = TodayBlocks(snapshot)

YesterdayBlocks(snapshot) ==
  [id \in {APP_GAMES[i] : i \in 1..Len(APP_GAMES)} |->
     IF id \in DOMAIN snapshot.games
     THEN [scores |-> snapshot.games[id].yesterday.scores,
           topAvatar |-> snapshot.games[id].yesterday.topAvatar]
     ELSE [scores |-> <<>>, topAvatar |-> Null]]

ReturnsYesterdayBlocksOf(result, snapshots) ==
  result.hasData /\ \A snapshot \in snapshots : result.boards = YesterdayBlocks(snapshot)

C11_WitnessFallback ==
  /\ queryPeriod = "yesterday"
  /\ queryDay = today
  /\ SessionSnapshots(dailyDataCache, dailyDir, today - 1) = {}
  /\ SnapshotsOf(dailyDir, today) # {}
  /\ ReturnsYesterdayBlocksOf(queryResult, SnapshotsOf(dailyDir, today))
  /\ \E id \in DOMAIN queryResult.boards : queryResult.boards[id].scores # <<>>

(***************************************************************************)
(* The claims about the time-window queries over a store (SpecQuery).      *)
(***************************************************************************)
\* the stored snapshots of the dates, in the order of the dates
RECURSIVE StoredSnapshots(_)
StoredSnapshots(dates) ==
  IF dates = <<>> THEN <<>>
  ELSE LET hits == SnapshotsOf(dailyDir, Head(dates))
       IN (IF hits = {} THEN <<>> ELSE <<CHOOSE snapshot \in hits : TRUE>>)
          \o StoredSnapshots(Tail(dates))

FirstOfMonth(date) == date - ((date - 1) % DaysInMonth)

\* C12: the 'month' query aggregates exactly the snapshots dated from the 1st of
\* the reference date's month to the day before the reference date; the snapshot
\* of the reference date is not included, and on the 1st of a month the result
\* is the no-data result.
C12_MonthExcludesToday ==
  queryPeriod = "month" =>
    LET first == FirstOfMonth(queryDay)
        dates == [i \in 1..(queryDay - first) |-> first + i - 1]
        found == StoredSnapshots(dates)
    IN IF found = <<>> THEN ~queryResult.hasData
       ELSE /\ queryResult.hasData
            /\ queryResult.boards = AggregateScores(found, "yesterday")

\* the snapshots of the 30 days before the reference date, the most recent first
AvatarWindow == StoredSnapshots([i \in 1..AllTimeDays |-> queryDay - i])

\* the games whose loaded all-time list is not empty
RankedGames ==
  {id \in AppGameIds : id \in DOMAIN allTimeData.games /\ allTimeData.games[id].scores # <<>>}

\* C13: in the 'alltime' query, for every game whose all-time list is not empty,
\* when the avatar resolver over the snapshots of the last 30 days yields no
\* avatar for the #1 username, the returned topAvatar is the topAvatar stored in
\* the all-time record of the game.
C13_AllTimeAvatarFallback ==
  (queryPeriod = "alltime" /\ queryResult.hasData) =>
    \A id \in RankedGames :
      LET top == allTimeData.games[id].scores[1].username
      IN FindAvatarForUser(AvatarWindow, id, top, TRUE) = Null
           => queryResult.boards[id].topAvatar = allTimeData.games[id].topAvatar

\* C14: for every period, each game's score list of a query result that is not
\* the no-data result has at most 10 entries, however long the stored period
\* blocks and the all-time list are.
C14_AtMostTenEntries ==
  (queryPeriod \in AllPeriods /\ queryResult.hasData) =>
    \A id \in DOMAIN queryResult.boards : Len(queryResult.boards[id].scores) <= TopN


\* C15: for the periods week, month and alltime the rank fields of each game's
\* returned entries are 1..k in list order, k being the number of entries.
C15_RanksFromPosition ==
  (queryPeriod \in {"week", "month", "alltime"} /\ queryResult.hasData) =>
    \A id \in DOMAIN queryResult.boards :
      \A i \in 1..Len(queryResult.boards[id].scores) :
        queryResult.boards[id].scores[i].rank = i


\* the snapshots a 'week' query on the reference date aggregates, most recent first
WeekSnapshots == StoredSnapshots([i \in 1..WeekDays |-> queryDay - i])

\* the yesterday block of a game in a snapshot
YesterdayScores(snapshot, id) ==
  IF id \in DOMAIN snapshot.games THEN snapshot.games[id].yesterday.scores ELSE <<>>

\* what the supplied days hold for a game: [day (position in days), username, score]
Observations(days, id) ==
  UNION { LET scores == YesterdayScores(days[k], id)
          IN {[day |-> k, username |-> scores[i].username, score |-> scores[i].score] :
                i \in 1..Len(scores)} : k \in 1..Len(days) }

\* the highest score of the username, on the first supplied day that has it
BestOf(obs, username) ==
  CHOOSE o \in obs :
    /\ o.username = username
    /\ \A p \in obs : p.username = username =>
         (p.score < o.score \/ (p.score = o.score /\ p.day >= o.day))

\* C16: aggregateScores yields, for each username, the maximum score it has in
\* the days' yesterday blocks together with the date of the first supplied day
\* on which that maximum was seen, sorted by score descending and cut to the
\* top 10 (Ariel scoring 100, 250, 180 on three days: 250 with the second date).
C16_AggregationCorrect ==
  (queryPeriod = "week" /\ queryResult.hasData) =>
    \A id \in AppGameIds :
      LET days == WeekSnapshots
          obs == Observations(days, id)
          names == {o.username : o \in obs}
          r == queryResult.boards[id].scores
      IN /\ Len(r) = Min(TopN, Cardinality(names))
         /\ \A i \in 1..Len(r) :
              /\ r[i].username \in names
              /\ r[i].score = BestOf(obs, r[i].username).score
              /\ "date" \in DOMAIN r[i]
              /\ r[i].date = days[BestOf(obs, r[i].username).day].date
         /\ \A i, j \in 1..Len(r) :
              i < j => (r[i].score >= r[j].score /\ r[i].username # r[j].username)
         /\ \A u \in names \ {r[i].username : i \in 1..Len(r)} :
              \A i \in 1..Len(r) : BestOf(obs, u).score <= r[i].score


\* C16 (amended): aggregateScores keeps in userBestScores, for each username, the
\* maximum score it has in the days' yesterday blocks with the date of the first
\* supplied day on which that maximum was seen; the entries it returns are these
\* sorted by score descending, cut to the top 10 and ranked 1..k, and they carry
\* rank, username and score, not the date.
C16_AggregationTracked ==
  (queryPeriod = "week" /\ queryResult.hasData) =>
    \A id \in AppGameIds :
      LET days == WeekSnapshots
          obs == Observations(days, id)
          names == {o.username : o \in obs}
          r == queryResult.boards[id].scores
          userBestScores == UserBestScores(<<>>, days, id, "yesterday")
      IN /\ Len(userBestScores) = Cardinality(names)
         /\ {userBestScores[i] : i \in 1..Len(userBestScores)} =
              {[username |-> u, score |-> BestOf(obs, u).score,
                date |-> days[BestOf(obs, u).day].date] : u \in names}
         /\ Len(r) = Min(TopN, Cardinality(names))
         /\ \A i \in 1..Len(r) :
              /\ r[i].username \in names
              /\ r[i] = [rank |-> i, username |-> r[i].username,
                         score |-> BestOf(obs, r[i].username).score]
         /\ \A i, j \in 1..Len(r) :
              i < j => (r[i].score >= r[j].score /\ r[i].username # r[j].username)
         /\ \A u \in names \ {r[i].username : i \in 1..Len(r)} :
              \A i \in 1..Len(r) : BestOf(obs, u).score <= r[i].score

\* three days were aggregated, with Ariel at 100, then 250, then 180: the map
\* holds Ariel at 250 with the date of the second day, the result Ariel at 250
C16_Witness ==
  /\ queryPeriod = "week" /\ queryResult.hasData /\ Len(WeekSnapshots) = 3
  /\ LET y(k) == YesterdayScores(WeekSnapshots[k], "castle-fireworks")
         userBestScores ==
           UserBestScores(<<>>, WeekSnapshots, "castle-fireworks", "yesterday")
     IN /\ y(3) # <<>> /\ y(3)[1] = [rank |-> 1, username |-> "Ariel", score |-> 100]
        /\ y(2) # <<>> /\ y(2)[1] = [rank |-> 1, username |-> "Ariel", score |-> 250]
        /\ y(1) # <<>> /\ y(1)[1] = [rank |-> 1, username |-> "Ariel", score |-> 180]
        /\ userBestScores[1] =
             [username |-> "Ariel", score |-> 250, date |-> WeekSnapshots[2].date]
        /\ queryResult.boards["castle-fireworks"].scores[1] =
             [rank |-> 1, username |-> "Ariel", score |-> 250]


\* the user leads the block of the game in the snapshot, which has the avatar
LeadsWith(snapshot, id, period, username, avatar) ==
  /\ id \in DOMAIN snapshot.games
  /\ TopIs(snapshot.games[id], period, username)
  /\ snapshot.games[id][period].topAvatar = avatar

\* the snapshots A and B, the game, the user and the avatars x and y of C17
AvatarCase(dayA, dayB, id, username, x, y) ==
  /\ dayA.date < dayB.date
  /\ x # y
  /\ LeadsWith(dayA, id, "highscores", username, x)
  /\ LeadsWith(dayB, id, "yesterday", username, y)
  /\ ~TopIs(dayB.games[id], "highscores", username)

AvatarNames == {"9f.png", "0a1b.png"}
BoardNames == {"Ariel", "Bob", "Cleo", "Player1"}

\* C17: for a user who is first in the highscores block of day A with avatar x
\* and first in the yesterday block of a later day B with avatar y, and who is
\* not first in the highscores block of day B, findAvatarForUser([dayB, dayA],
\* game, user, true) returns x, and with prioritizeHighscores = false it returns y.
C17_AvatarPriority ==
  queryPeriod = "alltime" =>
    \A fileA, fileB \in {f \in dailyDir : f.content.date < queryDay} :
      \A id \in AppGameIds, username \in BoardNames, x, y \in AvatarNames :
        AvatarCase(fileA.content, fileB.content, id, username, x, y)
          => /\ FindAvatarForUser(<<fileB.content, fileA.content>>, id, username, TRUE) = x
             /\ FindAvatarForUser(<<fileB.content, fileA.content>>, id, username, FALSE) = y


\* C17 (amended): for a user who is first in the highscores block of day A with
\* avatar x and first in the yesterday block of a later day B with avatar y, and
\* who is not first in the highscores block of day B, findAvatarForUser([dayB,
\* dayA], game, user, prioritizeHighscores) returns y for either value of
\* prioritizeHighscores: day B is searched through all its periods before day A.
C17_AvatarDayFirst ==
  queryPeriod = "alltime" =>
    \A fileA, fileB \in {f \in dailyDir : f.content.date < queryDay} :
      \A id \in AppGameIds, username \in BoardNames, x, y \in AvatarNames :
        AvatarCase(fileA.content, fileB.content, id, username, x, y)
          => \A prioritizeHighscores \in BOOLEAN :
               FindAvatarForUser(<<fileB.content, fileA.content>>, id, username,
                                 prioritizeHighscores) = y

\* the 'alltime' query resolved the avatar of such a user over such a pair of
\* snapshots, and returned y
C17_Witness ==
  /\ queryPeriod = "alltime" /\ queryResult.hasData
  /\ Len(AvatarWindow) = 2
  /\ \E id \in RankedGames, x, y \in AvatarNames :
       /\ AvatarCase(AvatarWindow[2], AvatarWindow[1], id,
                     allTimeData.games[id].scores[1].username, x, y)
       /\ queryResult.boards[id].topAvatar = y


\* C18: when no snapshot is stored and the all-time resource is absent too,
\* getScoresForPeriod('alltime') returns a result that maps every game to an
\* empty score list (not the no-data result).
C18_AllTimeEmptyState ==
  (queryPeriod = "alltime" /\ dailyDir = {} /\ ~allTimeFile.exists) =>
    /\ queryResult.hasData
    /\ \A id \in AppGameIds :
         id \in DOMAIN queryResult.boards /\ queryResult.boards[id].scores = <<>>

(***************************************************************************)
(* The claims about the user index (SpecIndex).                            *)
(***************************************************************************)
\* the appearances of a user in the stored snapshots: date and stored rank
Sightings(u) ==
  {[date |-> f.content.date, rank |-> f.content.games[g][p].scores[i].rank] :
     <<f, g, p, i>> \in
       {<<f, g, p, i>> \in dailyDir \X AppGameIds \X {"today", "yesterday", "highscores"}
                           \X (1..(MaxItems + TopN + 1)) :
          /\ g \in DOMAIN f.content.games
          /\ i <= Len(f.content.games[g][p].scores)
          /\ f.content.games[g][p].scores[i].username = u}}

SightedUsers ==
  {f.content.games[g][p].scores[i].username :
     <<f, g, p, i>> \in
       {<<f, g, p, i>> \in dailyDir \X AppGameIds \X {"today", "yesterday", "highscores"}
                           \X (1..(MaxItems + TopN + 1)) :
          /\ g \in DOMAIN f.content.games
          /\ i <= Len(f.content.games[g][p].scores)}}

LatestDate(u) == CHOOSE d \in {s.date : s \in Sightings(u)} :
                   \A s \in Sightings(u) : s.date <= d

LowestRankOn(u, d) ==
  CHOOSE r \in {s.rank : s \in {t \in Sightings(u) : t.date = d}} :
    \A s \in Sightings(u) : s.date = d => r <= s.rank

LastSeenBuilt ==
  seedPc = "written" =>
    /\ DOMAIN usersFile.users = SightedUsers
    /\ \A u \in SightedUsers :
         /\ usersFile.users[u].lastSeen = LatestDate(u)
         /\ usersFile.users[u].lastAppearance.date = usersFile.users[u].lastSeen
         /\ usersFile.users[u].lastAppearance.rank = LowestRankOn(u, LatestDate(u))

LastAppearanceStep ==
  \A u \in DOMAIN users' :
    LET old == IF u \in DOMAIN users THEN users[u] ELSE NewUser
        new == users'[u]
    IN /\ new.lastAppearance.date = new.lastSeen
       /\ new.lastAppearance # old.lastAppearance =>
            \/ old.lastSeen = NoDate
            \/ new.lastAppearance.date > old.lastAppearance.date
            \/ /\ new.lastAppearance.date = old.lastAppearance.date
               /\ new.lastAppearance.rank < old.lastAppearance.rank

\* C19: every step of the rebuild leaves lastAppearance.date equal to lastSeen
\* and changes lastAppearance only on a strictly newer date or on the same
\* date with a strictly lower rank; in the written index every user's
\* lastSeen is the latest snapshot date the user appears on and
\* lastAppearance.rank is the lowest rank the user holds in that snapshot.
C19_LastSeenRule == [][LastAppearanceStep /\ LastSeenBuilt']_vars

\* the index is written and some user appears on two dates and, on the
\* latest of them, at two different ranks, the lower one processed later
C19_Witness ==
  /\ usersFile.exists
  /\ \E u \in SightedUsers :
       /\ \E s \in Sightings(u) : s.date < LatestDate(u)
       /\ \E i, j \in 1..Len(SeedEntries(dailyDir)) :
            LET a == SeedEntries(dailyDir)[i]
                b == SeedEntries(dailyDir)[j]
            IN /\ i < j
               /\ a.entry.username = u /\ b.entry.username = u
               /\ a.date = LatestDate(u) /\ b.date = LatestDate(u)
               /\ b.entry.rank < a.entry.rank
               /\ usersFile.users[u].lastAppearance.rank <= b.entry.rank

\* the observations of a user in a game in the stored snapshots; the loops
\* reach them in the order of date, then period, then position in the list
ObservationsOf(u, g) ==
  {[date |-> f.content.date, period |-> p, idx |-> i,
    score |-> f.content.games[g][SeedPeriods[p]].scores[i].score,
    rank |-> f.content.games[g][SeedPeriods[p]].scores[i].rank] :
     <<f, p, i>> \in
       {<<f, p, i>> \in dailyDir \X (1..3) \X (1..(MaxItems + TopN + 1)) :
          /\ g \in DOMAIN f.content.games
          /\ i <= Len(f.content.games[g][SeedPeriods[p]].scores)
          /\ f.content.games[g][SeedPeriods[p]].scores[i].username = u}}

NotAfter(a, b) ==
  \/ a.date < b.date
  \/ a.date = b.date /\ a.period < b.period
  \/ a.date = b.date /\ a.period = b.period /\ a.idx <= b.idx

MaxScoreOf(obs) == CHOOSE m \in {o.score : o \in obs} : \A o \in obs : o.score <= m

FirstReaching(obs, best) ==
  CHOOSE o \in obs : o.score = best /\ \A x \in obs : x.score = best => NotAfter(o, x)

BestScoreStep ==
  \A u \in DOMAIN users' : \A g \in DOMAIN users'[u].games :
    LET old == IF u \in DOMAIN users /\ g \in DOMAIN users[u].games
               THEN users[u].games[g] ELSE NewGameStats
        new == users'[u].games[g]
    IN <<new.bestScore, new.date, new.rank>> # <<old.bestScore, old.date, old.rank>> =>
         /\ seedPos' = seedPos + 1
         /\ LET e == SeedEntries(dailyDir)[seedPos']
            IN /\ e.entry.username = u /\ e.gameId = g
               /\ e.entry.score > old.bestScore
               /\ new.bestScore = e.entry.score
               /\ new.date = e.date
               /\ new.rank = e.entry.rank

\* the written statistics of user u in game g are those of its observations
BestOfObservations(u, g, positiveOnly) ==
  LET obs == ObservationsOf(u, g)
  IN obs # {} =>
       /\ u \in DOMAIN usersFile.users /\ g \in DOMAIN usersFile.users[u].games
       /\ usersFile.users[u].games[g].bestScore = MaxScoreOf(obs)
       /\ (MaxScoreOf(obs) > 0 \/ ~positiveOnly) =>
            /\ usersFile.users[u].games[g].date = FirstReaching(obs, MaxScoreOf(obs)).date
            /\ usersFile.users[u].games[g].rank = FirstReaching(obs, MaxScoreOf(obs)).rank
       /\ (MaxScoreOf(obs) = 0 /\ positiveOnly) =>
            /\ usersFile.users[u].games[g].date = NoDate
            /\ usersFile.users[u].games[g].rank = NoRank

BestIsFirstMaximum ==
  seedPc = "written" =>
    \A u \in SightedUsers : \A g \in AppGameIds : BestOfObservations(u, g, FALSE)

BestIsFirstPositiveMaximum ==
  seedPc = "written" =>
    \A u \in SightedUsers : \A g \in AppGameIds : BestOfObservations(u, g, TRUE)

\* C20 as stated: bestScore changes only on a strictly greater score, with
\* date and rank set in the same step, and in the written index bestScore is
\* the user's maximum score in the game and date and rank are those of the
\* first observation that reached it.
C20_BestScoreRule == [][BestScoreStep /\ BestIsFirstMaximum']_vars

\* C20 amended: the same step rule; in the written index bestScore is the
\* user's maximum score in the game; where that maximum is positive, date and
\* rank are those of the first observation that reached it; where it is 0,
\* date and rank are unset.
C20_BestPositiveScoreRule == [][BestScoreStep /\ BestIsFirstPositiveMaximum']_vars

\* the index is written and some user reached the maximum of a game on two
\* dates, after a lower score on an earlier date
C20_Witness ==
  /\ usersFile.exists
  /\ \E u \in SightedUsers : \E g \in AppGameIds :
       \E a, b, c \in ObservationsOf(u, g) :
         /\ a.date < b.date /\ b.date < c.date
         /\ a.score < b.score
         /\ b.score = MaxScoreOf(ObservationsOf(u, g)) /\ c.score = b.score
         /\ b = FirstReaching(ObservationsOf(u, g), b.score)
         /\ usersFile.users[u].games[g].date = b.date

\* the all-time list of a game as seedUsersIndex reads it
AllTimeListOf(g) ==
  IF allTimeFile.exists /\ allTimeFile.parses /\ g \in DOMAIN allTimeFile.games
  THEN allTimeFile.games[g].scores ELSE <<>>

PositionsIn(list, u) == {i \in 1..Len(list) : list[i].username = u}

\* C21: in the written index games[g].allTimeRank of a user is set if and
\* only if the username occurs in the all-time list of g (the index tracking
\* g for the user), and it is then the 1-based position of the username in
\* that list, which is the rank stored in that all-time entry.
C21_AllTimeRankAssigned ==
  seedPc = "written" =>
    \A u \in DOMAIN usersFile.users : \A g \in DOMAIN usersFile.users[u].games :
      LET hits == PositionsIn(AllTimeListOf(g), u)
          allTimeRank == usersFile.users[u].games[g].allTimeRank
      IN /\ allTimeRank # NoRank <=> hits # {}
         /\ hits # {} =>
              /\ allTimeRank \in hits
              /\ AllTimeListOf(g)[allTimeRank].rank = allTimeRank

\* C22: a rebuild run once more over the same snapshots and the same
\* all-time record writes the users.json the rebuild before it wrote:
\* lastUpdated, userCount and users.
C22_RebuildDeterministic ==
  (seedPc = "written" /\ prevUsersFile.exists) => usersFile = prevUsersFile

(***************************************************************************)
(* The claims about usernames that differ in letter case (SpecCased).      *)
(***************************************************************************)
\* String.prototype.toLowerCase on the names of the pages
LowerCase(u) ==
  CASE u = "Ariel" -> "ariel"
    [] u = "ARIEL" -> "ariel"
    [] u = "Bob" -> "bob"
    [] OTHER -> u

OnceIgnoringCase(list) ==
  \A i, j \in 1..Len(list) : LowerCase(list[i].username) = LowerCase(list[j].username) => i = j

\* C23: after a merge no game's all-time list holds two entries whose
\* usernames differ in letter case only: a candidate whose username differs
\* only in case from a stored entry is merged into that entry.
C23_CaseInsensitiveNames ==
  UpdateReturned =>
    \A id \in DOMAIN games : OnceIgnoringCase(allTimeFile.games[id].scores)

(***************************************************************************)
(* The claims about overlapping ingestion processes (SpecOverlap).         *)
(***************************************************************************)
BothWrote == \A p \in ProcIds : procs[p].pc = "exited" /\ procs[p].writeNo > 0

\* both processes read all-time.json before either wrote it
Overlapped == \A p \in ProcIds : procs[p].writesSeen = 0

\* the record that process a, then process b, leave when run one after the other
OneAfterTheOther(file, a, b) ==
  UpdateAllTimeScores(
    UpdateAllTimeScores(file, procs[a].games, procs[a].pacificDate),
    procs[b].games, procs[b].pacificDate)

FirstWriter == CHOOSE p \in ProcIds : procs[p].writeNo = 1
LastWriter == CHOOSE p \in ProcIds : procs[p].writeNo = 2

\* C24 as stated: two processes that both read the all-time record before
\* either wrote it leave the record that running them one after the other,
\* in some order, leaves.
C24_MergesSerialized ==
  (BothWrote /\ Overlapped) =>
    \E a, b \in ProcIds :
      a # b /\ allTimeFile = OneAfterTheOther(procs[a].allTime, a, b)

\* C24 amended: processes that do not overlap (the second reads after the
\* first wrote) leave the record of running them one after the other in that
\* order; two processes that both read before either wrote leave the record
\* both read merged with the page of the one that wrote last, and nothing of
\* the other one's page.
C24_LastWriterWins ==
  BothWrote =>
    IF Overlapped
    THEN allTimeFile = UpdateAllTimeScores(procs[FirstWriter].allTime,
                                           procs[LastWriter].games,
                                           procs[LastWriter].pacificDate)
    ELSE allTimeFile = OneAfterTheOther(procs[FirstWriter].allTime, FirstWriter, LastWriter)

\* two overlapping processes wrote, and the record is not the one either
\* order of running them alone leaves
C24_Witness ==
  /\ BothWrote /\ Overlapped
  /\ \A a, b \in ProcIds :
       a # b => allTimeFile # OneAfterTheOther(procs[a].allTime, a, b)

(***************************************************************************)
(* The claims about the rendering of the dashboard (SpecRender).           *)
(***************************************************************************)
\* the leaderboards of the period that is selected now
CurrentLeaderboards ==
  GetScoresForPeriod(currentPeriod, allTimeData, dailyDataCache, dailyDir, today).result

\* C25: in 'all' view mode, once no renderAllLeaderboards call is waiting,
\* the leaderboards shown are those of currentPeriod, the period selected
\* last, whatever the order in which the calls finished.
C25_ShowsCurrentPeriod ==
  (shown # NotShown /\ inflight = <<>>) => shown.result = CurrentLeaderboards

(***************************************************************************)
(* The claims about provenance and the snapshot store (Spec).              *)
(***************************************************************************)
\* a snapshot stored for the date of the entry holds the username with the
\* score in the highscores or the today block of the game
EntryBacked(dir, id, e) ==
  \E f \in dir :
    /\ f.content.date = e.achievedOn
    /\ id \in DOMAIN f.content.games
    /\ \/ \E i \in 1..Len(f.content.games[id].highscores.scores) :
            /\ f.content.games[id].highscores.scores[i].username = e.username
            /\ f.content.games[id].highscores.scores[i].score = e.score
       \/ \E i \in 1..Len(f.content.games[id].today.scores) :
            /\ f.content.games[id].today.scores[i].username = e.username
            /\ f.content.games[id].today.scores[i].score = e.score

RecordedGames(file) == IF file.exists /\ file.parses THEN DOMAIN file.games ELSE {}

\* the record held the entry: username, score and date
Held(file, id, e) ==
  /\ id \in RecordedGames(file)
  /\ \E i \in 1..Len(file.games[id].scores) :
       /\ file.games[id].scores[i].username = e.username
       /\ file.games[id].scores[i].score = e.score
       /\ file.games[id].scores[i].achievedOn = e.achievedOn

\* C26 as stated: after successful ingestion runs every all-time entry
\* (u, s, d) is in the highscores or today block of the snapshot stored for d.
C26_ProvenanceBacked ==
  UpdateReturned =>
    \A id \in RecordedGames(allTimeFile) :
      \A i \in 1..Len(allTimeFile.games[id].scores) :
        EntryBacked(dailyDir, id, allTimeFile.games[id].scores[i])

\* C26 amended: every entry (u, s, d) that a successful run adds to the
\* all-time record or changes in it carries the date d of that run, and the
\* snapshot stored for d when the run ends holds u with s in the highscores
\* or today block of the game.
C26_ProvenanceBackedWhenStamped ==
  [][(pc = "saved" /\ pc' = "exited" /\ exitCode' = 0) =>
       \A id \in RecordedGames(allTimeFile') :
         \A i \in 1..Len(allTimeFile'.games[id].scores) :
           LET e == allTimeFile'.games[id].scores[i]
           IN ~Held(allTimeFile, id, e) =>
                /\ e.achievedOn = pacificDate
                /\ EntryBacked(dailyDir', id, e)]_vars

\* a second run on a date stamped an entry, and an entry stamped by the run
\* before it is no longer in the snapshot of that date
C26_Witness ==
  /\ UpdateReturned /\ runs >= 2
  /\ \E id \in RecordedGames(allTimeFile) :
       /\ \E i \in 1..Len(allTimeFile.games[id].scores) :
            /\ ~Held(beforeFile, id, allTimeFile.games[id].scores[i])
            /\ allTimeFile.games[id].scores[i].achievedOn = pacificDate
       /\ \E i \in 1..Len(allTimeFile.games[id].scores) :
            /\ allTimeFile.games[id].scores[i].achievedOn = pacificDate
            /\ ~EntryBacked(dailyDir, id, allTimeFile.games[id].scores[i])

(***************************************************************************)
(* Further claims about the merge engine (SpecMerge).                      *)
(***************************************************************************)
\* the step is a call of updateAllTimeScores that returned
MergeReturns == pc' = "exited" /\ exitCode' = 0 /\ (pc = "saved" \/ remerged')

\* C27: a merge into a game that has a record never shortens the game's
\* list, and for every username in the list before and after the merge the
\* score does not decrease and achievedOn does not move to an earlier date.
C27_GrowsAndImproves ==
  [][MergeReturns =>
       \A id \in DOMAIN games \cap RecordedGames(allTimeFile) :
         LET old == allTimeFile.games[id].scores
             new == allTimeFile'.games[id].scores
         IN /\ Len(new) >= Len(old)
            /\ \A i \in 1..Len(old) : \A j \in 1..Len(new) :
                 old[i].username = new[j].username =>
                   /\ new[j].score >= old[i].score
                   /\ new[j].achievedOn >= old[i].achievedOn]_vars

\* the block leads with the username
LedBy(block, username) == block.scores # <<>> /\ block.scores[1].username = username

\* C28: whenever a merge into a game that has a record takes the game's
\* topAvatar from the incoming today block, or else from the incoming
\* highscores block, the first entry of that block has the username of the
\* game's new #1 all-time entry.
C28_TopAvatarOfTopPlayer ==
  [][MergeReturns =>
       \A id \in DOMAIN games \cap RecordedGames(allTimeFile) :
         LET new == allTimeFile'.games[id].scores
         IN (new # <<>> /\ new[1].achievedOn = pacificDate) =>
              IF games[id].today.topAvatar # Null
              THEN LedBy(games[id].today, new[1].username)
              ELSE games[id].highscores.topAvatar # Null =>
                     LedBy(games[id].highscores, new[1].username)]_vars

(***************************************************************************)
(* Further claims about the avatar resolver (SpecQuery).                   *)
(***************************************************************************)
\* the blocks of the window that the 'alltime' lookup scans, in scan order:
\* <<i, p>> is the p-th period of the i-th snapshot
ScanOrder == <<"highscores", "yesterday", "today">>

BlockAt(id, ip) == AvatarWindow[ip[1]].games[id][ScanOrder[ip[2]]]

\* the scanned blocks of the game that the username leads
LedBlocks(id, username) ==
  {ip \in (1..Len(AvatarWindow)) \X (1..3) :
     /\ id \in DOMAIN AvatarWindow[ip[1]].games
     /\ BlockAt(id, ip).scores # <<>>
     /\ BlockAt(id, ip).scores[1].username = username}

FirstLed(id, username) ==
  CHOOSE ip \in LedBlocks(id, username) :
    \A other \in LedBlocks(id, username) :
      ip[1] < other[1] \/ (ip[1] = other[1] /\ ip[2] <= other[2])

\* an 'alltime' query that resolved the avatars over a window of snapshots
AllTimeResolved == queryPeriod = "alltime" /\ queryResult.hasData /\ AvatarWindow # <<>>

TopName(id) == allTimeData.games[id].scores[1].username

\* C29 as stated: findAvatarForUser returns no avatar only if no scanned
\* snapshot has a block of the game that the username leads and that carries
\* an avatar.
C29_AbsentOnlyWithoutAvatar ==
  AllTimeResolved =>
    \A id \in RankedGames :
      queryResult.boards[id].topAvatar = Null =>
        \A ip \in LedBlocks(id, TopName(id)) : BlockAt(id, ip).topAvatar = Null

\* C29 amended: findAvatarForUser returns the topAvatar of the first scanned
\* block that the username leads, set or not; it returns no avatar if the
\* username leads no scanned block or if the first block it leads carries none.
C29_FirstLedBlockDecides ==
  AllTimeResolved =>
    \A id \in RankedGames :
      queryResult.boards[id].topAvatar =
        IF LedBlocks(id, TopName(id)) = {} THEN Null
        ELSE BlockAt(id, FirstLed(id, TopName(id))).topAvatar

\* the first block the #1 player leads carries no avatar, a later one does,
\* and the lookup returned none
C29_Witness ==
  /\ AllTimeResolved
  /\ \E id \in RankedGames :
       /\ LedBlocks(id, TopName(id)) # {}
       /\ BlockAt(id, FirstLed(id, TopName(id))).topAvatar = Null
       /\ \E ip \in LedBlocks(id, TopName(id)) : BlockAt(id, ip).topAvatar # Null
       /\ queryResult.boards[id].topAvatar = Null

(***************************************************************************)
(* The snapshot cache of one dashboard session                             *)
(***************************************************************************)
\* a load that missed the cache returns what is stored under its date when fetchJSON
\* resolves, and leaves the cache as it was if nothing is stored
ReturnsStored(c) ==
  LET stored == {f \in dailyDir : f.name = SnapshotFilename(loads[c].date)}
  IN /\ loads'[c].found = (stored # {})
     /\ loads'[c].found => \E f \in stored : loads'[c].data = f.content
     /\ ~loads'[c].found => dailyDataCache' = dailyDataCache

\* C30: within one session the cache holds an entry for a date only if a load of that
\* date returned a snapshot; once a load of a date has returned a snapshot, every later
\* load of the date returns that same snapshot, whatever the ingestion processes wrote
\* in between; an absent result is not cached, so a snapshot written after a load that
\* found nothing is returned by the next load
C30_CacheSemantics ==
  [][/\ \A d \in DOMAIN dailyDataCache' : d \in DOMAIN returned'
     /\ \A c \in LoadIds :
          (loads'[c].pc = "returned" /\ loads'[c].later) =>
            (loads'[c].found /\ loads'[c].data = returned'[loads'[c].date])
     /\ \A c \in LoadIds :
          (loads[c].pc = "fetching" /\ loads'[c].pc = "returned") => ReturnsStored(c)]_vars
====
